---- MODULE Spec2Model ----
(***************************************************************************)
(* Verification model of the resilient publishing core of                  *)
(* ai-content-publisher:                                                   *)
(*   - CircuitBreaker and RetryHandler   (core/retry-handler.ts)           *)
(*   - ContentScheduler                  (core/content-scheduler.ts)       *)
(*   - BulkPublisher                     (core/bulk-publisher.ts)          *)
(* Every await of the TypeScript code is a step boundary: a handler runs   *)
(* atomically from one await to the next (single-threaded event loop), and *)
(* other handlers interleave at the awaits.                                *)
(***************************************************************************)
EXTENDS Integers, Sequences, FiniteSets, TLC

\* ------------------------------------------------------------------ bounds
\* The clock runs from 1 to MaxTime (Date.now(), in abstract ticks).
MaxTime == 4
\* Largest circuitBreakerThreshold tried.
MaxThreshold == 2
\* Largest circuitBreakerResetTimeMs tried (in ticks).
MaxResetTime == 2
\* Largest maxRetries tried in one executeWithRetry call.
MaxRetries == 2
\* failureCount is not allowed to grow past this value.
MaxFailureCount == 3
\* Largest number of items ever added to the scheduler queue.
MaxItems == 2
\* The scheduler's clock runs from 1 to MaxSchedTime.
MaxSchedTime == 2
\* Largest scheduleConfig.maxRetries tried (0 stands for "not given").
MaxSchedRetries == 1
\* Largest number of items ever added to the bulk publisher.
MaxBulkItems == 2
\* Largest BulkPublishConfig.concurrency tried.
MaxConcurrency == 2
\* Largest BulkPublishConfig.maxRetries tried (0 is a configured value).
MaxBulkRetries == 1
\* publishAllNow: items submitted to the scheduler and to the bulk publisher,
\* and items the bulk queue holds after the copies were added.
MaxNowQueued == 1
MaxNowAdded == 1
MaxNowItems == 3
\* Longest platform list given to publishToMultiple, most content items given
\* to batchPublish, largest concurrency option tried.
MaxPlatforms == 2
MaxBatchItems == 3
MaxBatchConcurrency == 2
\* Longest platform list given to getBestPlatformsForContent.
MaxAvailable == 3
\* Largest baseDelayMs, maxDelayMs and jitterMs tried (milliseconds).
MaxBaseDelay == 2
MaxDelay == 4
MaxJitter == 2
\* Most OptimalTime entries one platform has in scheduleConfig.optimalTimes.
MaxSlots == 2
\* Most items given to one addItems call, and the largest concurrency tried
\* with them.
MaxWaveItems == 5
MaxWaveConcurrency == 2

VARIABLES
  now,          \* Date.now()
  cb,           \* the CircuitBreaker of the one circuitBreakerKey in use
  threshold,    \* CircuitBreaker.threshold (constructor argument)
  resetTimeMs,  \* CircuitBreaker.resetTimeMs (constructor argument)
  defaultConfig, \* RetryHandler.defaultConfig: the delay fields of RetryConfig
  hist,         \* history of the breaker's calls (see NoHistory)
  direct,       \* direct callers of CircuitBreaker.execute: their position
  rh,           \* the executeWithRetry call in progress (RetryHandler)
  queue,        \* ContentScheduler.contentQueue, in insertion order (id = index)
  scheduleConfig, \* ContentScheduler.scheduleConfig
  ot,           \* a calculateOptimalTime call: its inputs and what it returned
  isRunning,    \* ContentScheduler.isRunning
  intervalId,   \* ContentScheduler.intervalId is set (the 60 s timer exists)
  runs,         \* the publishAllReady / processScheduledContent invocations
  items,        \* BulkPublisher.items, in insertion order (id = index)
  bulkConfig,   \* BulkPublisher.config
  isPublishing, \* BulkPublisher.isPublishing
  pub,          \* the publishAll invocation in progress
  tst,          \* a testAllItems invocation made from outside publishAll
  mgr,          \* the ContentManager.publishAllNow invocation in progress
  ap,           \* AIContentPublisher: its adapters and the call in progress
  ct            \* ContentTester: the content under test and the last call

retryVars == <<cb, threshold, resetTimeMs, defaultConfig, hist, direct, rh>>
schedVars == <<queue, scheduleConfig, ot, isRunning, intervalId, runs>>
bulkVars == <<items, bulkConfig, isPublishing, pub, tst, mgr>>
publisherVars == <<ap, ct>>
vars == <<now, cb, threshold, resetTimeMs, defaultConfig, hist, direct, rh,
          queue, scheduleConfig, ot, isRunning, intervalId, runs,
          items, bulkConfig, isPublishing, pub, tst, mgr, ap, ct>>

\* ------------------------------------------------------- CircuitBreaker
CLOSED == "closed"
OPEN == "open"
HALF_OPEN == "half_open"
CircuitState == {CLOSED, OPEN, HALF_OPEN}

\* Number of successes in half_open that close the breaker.
HalfOpenSuccesses == 3

\* A freshly constructed breaker (field initialisers).
NewCircuitBreaker ==
  [state |-> CLOSED, failureCount |-> 0, lastFailureTime |-> 0, successCount |-> 0]

\* execute, line 42-45: the call is rejected ('Circuit breaker is OPEN').
ExecuteRejects(b, t) ==
  b.state = OPEN /\ t - b.lastFailureTime < resetTimeMs

\* execute, line 42-48, for a call that is not rejected: an open breaker whose
\* reset time has passed becomes half_open, with successCount 0.
\* ExecuteAdmit without the reset of successCount (line 47 dropped).
ExecuteAdmit_KeepCount(b) ==
  IF b.state = OPEN
    THEN [b EXCEPT !.state = HALF_OPEN]
    ELSE b

ExecuteAdmit(b) ==
  IF b.state = OPEN
    THEN [b EXCEPT !.state = HALF_OPEN, !.successCount = 0]
    ELSE b

\* onSuccess without the reset of failureCount (line 60 dropped).
onSuccess_KeepFailures(b) ==
  IF b.state = HALF_OPEN
    THEN LET b2 == [b EXCEPT !.successCount = b.successCount + 1] IN
         IF b2.successCount >= HalfOpenSuccesses
           THEN [b2 EXCEPT !.state = CLOSED]
           ELSE b2
    ELSE b

onSuccess(b) ==
  LET b1 == [b EXCEPT !.failureCount = 0] IN
  IF b1.state = HALF_OPEN
    THEN LET b2 == [b1 EXCEPT !.successCount = b1.successCount + 1] IN
         IF b2.successCount >= HalfOpenSuccesses
           THEN [b2 EXCEPT !.state = CLOSED]
           ELSE b2
    ELSE b1

\* onFailure with the threshold test off by one (> for >=).
onFailure_OffByOne(b, t) ==
  LET b1 == [b EXCEPT !.failureCount = b.failureCount + 1,
                      !.lastFailureTime = t] IN
  IF b1.failureCount > threshold
    THEN [b1 EXCEPT !.state = OPEN]
    ELSE b1

onFailure(b, t) ==
  LET b1 == [b EXCEPT !.failureCount = b.failureCount + 1,
                      !.lastFailureTime = t] IN
  IF b1.failureCount >= threshold
    THEN [b1 EXCEPT !.state = OPEN]
    ELSE b1

reset(b) ==
  [b EXCEPT !.state = CLOSED, !.failureCount = 0,
            !.successCount = 0, !.lastFailureTime = 0]

\* History of the calls made through the breaker, kept beside it:
\*   consec = failed calls completed since the last successful completion
\*            (or since construction / reset);
\*   streak = successful calls completed one after the other, with no failure
\*            between them, in the current half-open period;
\*   before = the direct callers whose call was in flight when the breaker
\*            last opened, and still is.
NoHistory == [consec |-> 0, streak |-> 0, before |-> {}]

HistAdmit(h, b) == IF b.state = OPEN THEN [h EXCEPT !.streak = 0] ELSE h

HistSuccess(h, b) ==
  [h EXCEPT !.consec = 0,
            !.streak = IF b.state = HALF_OPEN
                         THEN (IF h.streak < HalfOpenSuccesses THEN h.streak + 1 ELSE h.streak)
                         ELSE 0]

HistFailure(h) == [h EXCEPT !.consec = h.consec + 1, !.streak = 0]

\* The callers other than d whose call is in flight.
InFlightBeside(d) == {e \in DOMAIN direct \ {d} : direct[e] = "inop"}

\* --------------------------------------------------------------- errors
\* A message is a sequence of words; includes() is "is a contiguous part of".
Lower(w) ==
  CASE w = "Circuit" -> "circuit"
    [] w = "OPEN" -> "open"
    [] w = "Connection" -> "connection"
    [] w = "Unauthorized" -> "unauthorized"
    [] w = "Service" -> "service"
    [] w = "Unavailable" -> "unavailable"
    [] w = "Invalid" -> "invalid"
    [] w = "API" -> "api"
    [] w = "Quota" -> "quota"
    [] OTHER -> w

toLowerCase(m) == [i \in DOMAIN m |-> Lower(m[i])]

includes(m, sub) ==
  \E k \in 0..(Len(m) - Len(sub)) : \A j \in 1..Len(sub) : m[k + j] = sub[j]

\* An error value: re = it is an instance of RetryableError (and then
\* isRetryable is its flag); status = error.response?.status || error.statusCode
\* (0 when there is none).
Err(re, isRetryable, message, status) ==
  [re |-> re, isRetryable |-> isRetryable, message |-> message, status |-> status]

\* The error CircuitBreaker.execute throws when it rejects a call.
BreakerOpenError ==
  Err(FALSE, FALSE,
      <<"Circuit", "breaker", "is", "OPEN", "-", "operation", "not", "allowed">>, 0)

\* The errors the wrapped operation may throw.
OpErrors ==
  { Err(FALSE, FALSE, <<"fail">>, 0),
    Err(FALSE, FALSE, <<"network", "error">>, 0),
    Err(FALSE, FALSE, <<"Unauthorized">>, 401),
    Err(FALSE, FALSE, <<"Connection", "refused">>, 403),
    Err(FALSE, FALSE, <<"Service", "Unavailable">>, 503),
    Err(TRUE, FALSE, <<"network", "error">>, 0),
    Err(TRUE, TRUE, <<"Quota", "exceeded">>, 0) }

\* The values of config.retryableErrors tried ({} stands for undefined).
RetryableErrorLists ==
  { {}, {<<"not", "allowed">>} }

RetryableStatusCodes == {408, 429, 500, 502, 503, 504}

isRetryableError(error, retryableErrors) ==
  IF error.re
    THEN error.isRetryable
    ELSE LET errorMessage == toLowerCase(error.message) IN
         IF \/ includes(errorMessage, <<"network">>)
            \/ includes(errorMessage, <<"timeout">>)
            \/ includes(errorMessage, <<"connection">>)
            \/ includes(errorMessage, <<"econnreset">>)
            \/ includes(errorMessage, <<"enotfound">>)
           THEN TRUE
           ELSE IF error.status # 0 /\ error.status \in RetryableStatusCodes
             THEN TRUE
             ELSE \E r \in retryableErrors : includes(errorMessage, toLowerCase(r))

\* RetryHandler.categorizeError(error): the ErrorType of an error, by its
\* status code first and its message next.
categorizeError(error) ==
  LET message == toLowerCase(error.message)
      statusCode == error.status
  IN IF statusCode = 401 \/ statusCode = 403 THEN "authentication"
     ELSE IF statusCode = 429 THEN "rate_limit"
     ELSE IF statusCode >= 400 /\ statusCode < 500 THEN "client"
     ELSE IF statusCode >= 500 THEN "server"
     ELSE IF includes(message, <<"timeout">>) THEN "timeout"
     ELSE IF \/ includes(message, <<"network">>)
             \/ includes(message, <<"connection">>)
             \/ includes(message, <<"econnreset">>)
             \/ includes(message, <<"enotfound">>) THEN "network"
     ELSE IF includes(message, <<"validation">>) \/ includes(message, <<"invalid">>)
       THEN "validation"
     ELSE "unknown"

\* Errors of every ErrorType that are not RetryableError instances: the
\* status codes and messages tried.
StatusCodes == {0, 400, 401, 403, 404, 408, 429, 500, 501, 503}

Messages ==
  { <<"fail">>, <<"network", "error">>, <<"request", "timeout">>,
    <<"Connection", "refused">>, <<"Invalid", "input">>,
    <<"validation", "failed">> }

PlainErrors == {Err(FALSE, FALSE, m, st) : m \in Messages, st \in StatusCodes}

\* ------------------------------------------- direct CircuitBreaker.execute
DirectCallers == {"d1", "d2"}

\* A caller starts CircuitBreaker.execute(operation): rejected at once, or
\* admitted with the operation now running.
DirectExecute(d) ==
  /\ direct[d] = "idle"
  /\ IF ExecuteRejects(cb, now)
       THEN UNCHANGED <<cb, hist, direct>>
       ELSE /\ cb' = ExecuteAdmit(cb)
            /\ hist' = HistAdmit(hist, cb)
            /\ direct' = [direct EXCEPT ![d] = "inop"]
  /\ UNCHANGED <<publisherVars, now, threshold, resetTimeMs, defaultConfig, rh, schedVars, bulkVars>>

\* The operation of a direct call resolves.
DirectSuccess(d) ==
  /\ direct[d] = "inop"
  /\ cb' = onSuccess(cb)
  /\ hist' = [HistSuccess(hist, cb) EXCEPT !.before = hist.before \ {d}]
  /\ direct' = [direct EXCEPT ![d] = "idle"]
  /\ UNCHANGED <<publisherVars, now, threshold, resetTimeMs, defaultConfig, rh, schedVars, bulkVars>>

\* The operation of a direct call rejects.
DirectFailure(d) ==
  /\ direct[d] = "inop"
  /\ cb.failureCount < MaxFailureCount /\ hist.consec < MaxFailureCount
  /\ cb' = onFailure(cb, now)
  /\ hist' = [HistFailure(hist) EXCEPT
                !.before = IF cb'.state = OPEN THEN InFlightBeside(d)
                                               ELSE hist.before \ {d}]
  /\ direct' = [direct EXCEPT ![d] = "idle"]
  /\ UNCHANGED <<publisherVars, now, threshold, resetTimeMs, defaultConfig, rh, schedVars, bulkVars>>

\* RetryHandler.resetCircuitBreaker(key) -> CircuitBreaker.reset().
ResetCircuitBreaker ==
  /\ cb' = reset(cb)
  /\ hist' = [NoHistory EXCEPT !.before = hist.before]
  /\ UNCHANGED <<publisherVars, now, threshold, resetTimeMs, defaultConfig, direct, rh, schedVars, bulkVars>>

\* ------------------------------------------------ RetryHandler.executeWithRetry
\* The state of one executeWithRetry call: its arguments (useKey = a
\* circuitBreakerKey is given), its locals (attempts, lastError), the returned
\* success flag, and what happened in it: invoked = times the operation was
\* invoked, rejected = the breaker rejected an attempt, nonRetryable = the
\* operation threw an error classified not retryable, delays = the backoff
\* delays slept so far.
IdleCall ==
  [pc |-> "idle", useKey |-> FALSE, maxRetries |-> 0, retryableErrors |-> {},
   attempts |-> 0, invoked |-> 0, lastError |-> <<>>, success |-> FALSE,
   rejected |-> FALSE, nonRetryable |-> FALSE, delays |-> <<>>]

\* Math.min
Min(a, b) == IF a < b THEN a ELSE b

\* Math.pow(2, n)
RECURSIVE Pow2(_)
Pow2(n) == IF n <= 0 THEN 1 ELSE 2 * Pow2(n - 1)

\* Math.random() * config.jitterMs, in whole milliseconds: from 0 up to, not
\* including, jitterMs.
Jitters(config) ==
  IF config.jitterMs = 0 THEN {0} ELSE 0..(config.jitterMs - 1)

\* calculateDelay without the final Math.min(delay, config.maxDelayMs).
calculateDelay_NoCap(attempt, config, jitter) ==
  LET delay == IF config.exponentialBackoff
                 THEN Min(config.baseDelayMs * Pow2(attempt - 1), config.maxDelayMs)
                 ELSE config.baseDelayMs
  IN IF config.jitterMs # 0 THEN delay + jitter ELSE delay

\* calculateDelay(attempt, config), line 225-242; jitter is the value drawn
\* from Math.random().
calculateDelay(attempt, config, jitter) ==
  LET delay == IF config.exponentialBackoff
                 THEN Min(config.baseDelayMs * Pow2(attempt - 1), config.maxDelayMs)
                 ELSE config.baseDelayMs
      delay1 == IF config.jitterMs # 0 THEN delay + jitter ELSE delay
  IN Min(delay1, config.maxDelayMs)

\* Catch with the last-attempt test off by one (>= for >).
Catch_OffByOne(c, e) ==
  LET c1 == [c EXCEPT !.lastError = <<e>>] IN
  IF ~isRetryableError(e, c.retryableErrors)
    THEN [c1 EXCEPT !.pc = "done", !.success = FALSE]
    ELSE IF c.attempts >= c.maxRetries
      THEN [c1 EXCEPT !.pc = "done", !.success = FALSE]
      ELSE [c1 EXCEPT !.pc = "sleep"]

\* Catch without the retryability test (line 165-167 dropped).
Catch_NoClassCheck(c, e) ==
  LET c1 == [c EXCEPT !.lastError = <<e>>] IN
  IF c.attempts > c.maxRetries
    THEN [c1 EXCEPT !.pc = "done", !.success = FALSE]
    ELSE [c1 EXCEPT !.pc = "sleep"]

\* The catch block of the retry loop, line 161-177, for error e.
Catch(c, e) ==
  LET c1 == [c EXCEPT !.lastError = <<e>>] IN
  IF ~isRetryableError(e, c.retryableErrors)
    THEN [c1 EXCEPT !.pc = "done", !.success = FALSE]
    ELSE IF c.attempts > c.maxRetries
      THEN [c1 EXCEPT !.pc = "done", !.success = FALSE]
      ELSE [c1 EXCEPT !.pc = "sleep"]

\* The loop header after attempts++, line 149.
LoopHead(c) ==
  IF c.attempts <= c.maxRetries + 1
    THEN [c EXCEPT !.pc = "attempt"]
    ELSE [c EXCEPT !.pc = "done", !.success = FALSE]

\* executeWithRetry(operation, config, circuitBreakerKey) is called.
ExecuteWithRetry(useKey, maxRetries, retryableErrors) ==
  /\ rh.pc \in {"idle", "done"}
  /\ rh' = LoopHead([IdleCall EXCEPT !.useKey = useKey, !.maxRetries = maxRetries,
                                     !.retryableErrors = retryableErrors,
                                     !.attempts = 1])
  /\ UNCHANGED <<publisherVars, now, cb, threshold, resetTimeMs, defaultConfig, hist, direct, schedVars, bulkVars>>

\* One pass of the loop body up to its await, line 150-153.
Attempt ==
  /\ rh.pc = "attempt"
  /\ IF rh.useKey /\ ExecuteRejects(cb, now)
       THEN /\ rh' = Catch([rh EXCEPT !.rejected = TRUE], BreakerOpenError)
            /\ UNCHANGED <<cb, hist>>
       ELSE /\ cb' = IF rh.useKey THEN ExecuteAdmit(cb) ELSE cb
            /\ hist' = IF rh.useKey THEN HistAdmit(hist, cb) ELSE hist
            /\ rh' = [rh EXCEPT !.pc = "inop", !.invoked = rh.invoked + 1]
  /\ UNCHANGED <<publisherVars, now, threshold, resetTimeMs, defaultConfig, direct, schedVars, bulkVars>>

\* The awaited operation resolves.
OperationSucceeds ==
  /\ rh.pc = "inop"
  /\ cb' = IF rh.useKey THEN onSuccess(cb) ELSE cb
  /\ hist' = IF rh.useKey THEN HistSuccess(hist, cb) ELSE hist
  /\ rh' = [rh EXCEPT !.pc = "done", !.success = TRUE]
  /\ UNCHANGED <<publisherVars, now, threshold, resetTimeMs, defaultConfig, direct, schedVars, bulkVars>>

\* The awaited operation rejects with error e.
OperationFails(e) ==
  /\ rh.pc = "inop"
  /\ rh.useKey => cb.failureCount < MaxFailureCount /\ hist.consec < MaxFailureCount
  /\ cb' = IF rh.useKey THEN onFailure(cb, now) ELSE cb
  /\ hist' = IF rh.useKey THEN HistFailure(hist) ELSE hist
  /\ rh' = Catch([rh EXCEPT !.nonRetryable =
                     rh.nonRetryable \/ ~isRetryableError(e, rh.retryableErrors)], e)
  /\ UNCHANGED <<publisherVars, now, threshold, resetTimeMs, defaultConfig, direct, schedVars, bulkVars>>

\* The backoff sleep, of the delay calculateDelay(attempts, finalConfig) gave,
\* ends: attempts++ and the loop header.
Wake ==
  /\ rh.pc = "sleep"
  /\ \E jitter \in Jitters(defaultConfig) :
       rh' = LoopHead([rh EXCEPT
                         !.attempts = rh.attempts + 1,
                         !.delays = Append(rh.delays,
                                           calculateDelay(rh.attempts, defaultConfig,
                                                          jitter))])
  /\ UNCHANGED <<publisherVars, now, cb, threshold, resetTimeMs, defaultConfig, hist, direct, schedVars, bulkVars>>

\* ------------------------------------------------------- ContentScheduler
\* The invocations that can be in progress at once: one processScheduledContent
\* (started by start() or by the timer) and one direct publishAllReady call.
\* The scheduler's clock unit is the retry delay of retryFailedContent
\* (5 minutes); the 60 s timer may fire any number of times within one unit.
RetryDelay == 1

DefaultMaxRetries == 3

Priorities == {"low", "medium", "high", "urgent"}

priorityOrder(p) ==
  CASE p = "urgent" -> 4 [] p = "high" -> 3 [] p = "medium" -> 2 [] p = "low" -> 1

Runs == {"scheduled", "direct"}

IdleRun == [pc |-> "idle", readyContent |-> <<>>, idx |-> 0]

\* A new QueuedContent, as addToQueue builds it. compatible = the tester finds
\* the content compatible with every platform of the item (a property of its
\* content and platforms); requeued = times retryFailedContent re-queued it;
\* publishResults = undefined, or whether the stored results are all
\* successful; attempt = how the last publishToMultiple call made for the item
\* ended (none, successful, unsuccessful, throws).
NewQueuedContent(priority, scheduledFor, compatible) ==
  [status |-> "pending", priority |-> priority, scheduledFor |-> scheduledFor,
   retryCount |-> 0, compatible |-> compatible, requeued |-> 0,
   publishResults |-> "undefined", attempt |-> "none"]

\* updateQueuedContent(id, {status}) : no effect when the id is not queued.
SetStatus(q, id, st) ==
  IF id \in DOMAIN q THEN [q EXCEPT ![id].status = st] ELSE q

\* testContent(item): testing, then ready or pending (no await in between).
TestedQueue(q, id) ==
  LET q1 == SetStatus(q, id, "testing") IN
  SetStatus(q1, id, IF q1[id].compatible THEN "ready" ELSE "pending")

\* The comparator of getReadyContent's sort: negative when a sorts before b.
\* compare without the scheduled-time tie-break (line 203 dropped).
compare_PriorityOnly(q, a, b) ==
  priorityOrder(q[b].priority) - priorityOrder(q[a].priority)

compare(q, a, b) ==
  LET priorityDiff == priorityOrder(q[b].priority) - priorityOrder(q[a].priority) IN
  IF priorityDiff # 0 THEN priorityDiff
  ELSE q[a].scheduledFor - q[b].scheduledFor

\* Array.prototype.sort is stable: x goes after every element it does not
\* sort strictly before.
RECURSIVE InsertSorted(_, _, _)
InsertSorted(q, sorted, x) ==
  IF sorted = <<>> THEN <<x>>
  ELSE IF compare(q, x, Head(sorted)) < 0 THEN <<x>> \o sorted
  ELSE <<Head(sorted)>> \o InsertSorted(q, Tail(sorted), x)

RECURSIVE SortIds(_, _)
SortIds(q, ids) ==
  IF ids = <<>> THEN <<>>
  ELSE InsertSorted(q, SortIds(q, SubSeq(ids, 1, Len(ids) - 1)), ids[Len(ids)])

\* getReadyContent(): the ids of the ready items that are due, sorted; each
\* with the retryCount its object holds at this moment.
getReadyContent(q, t) ==
  LET due == SelectSeq([i \in 1..Len(q) |-> i],
                       LAMBDA i : q[i].status = "ready" /\ q[i].scheduledFor <= t)
      sorted == SortIds(q, due)
  IN [k \in 1..Len(sorted) |-> [id |-> sorted[k], retryCount |-> q[sorted[k]].retryCount]]

\* scheduleConfig.maxRetries || 3
effectiveMaxRetries ==
  IF scheduleConfig.maxRetries = 0 THEN DefaultMaxRetries ELSE scheduleConfig.maxRetries

\* retryFailedContent(): every failed item below the retry limit goes back to
\* pending, due RetryDelay from now.
retryFailedContent(q, t) ==
  [i \in 1..Len(q) |->
     IF q[i].status = "failed" /\ q[i].retryCount < effectiveMaxRetries
       THEN [q[i] EXCEPT !.status = "pending", !.scheduledFor = t + RetryDelay,
                         !.requeued = q[i].requeued + 1]
       ELSE q[i]]

\* addToQueue(content, platforms, {priority, scheduledFor}), with the auto-test.
AddToQueue(priority, scheduledFor, compatible) ==
  /\ Len(queue) < MaxItems
  /\ LET id == Len(queue) + 1
         q1 == Append(queue, NewQueuedContent(priority, scheduledFor, compatible))
     IN queue' = IF scheduleConfig.autoTest THEN TestedQueue(q1, id) ELSE q1
  /\ UNCHANGED <<publisherVars, now, retryVars, bulkVars, scheduleConfig, ot, isRunning, intervalId, runs>>

\* testContent(item) for a pending item (ContentManager.testAndOptimizeAllPending).
TestContent(id) ==
  /\ id \in DOMAIN queue
  /\ queue[id].status = "pending"
  /\ queue' = TestedQueue(queue, id)
  /\ UNCHANGED <<publisherVars, now, retryVars, bulkVars, scheduleConfig, ot, isRunning, intervalId, runs>>

\* publishAllReady() from its start to its first await: the snapshot is taken,
\* the first item is set to publishing and handed to publishToMultiple.
BeginPublishAllReady(r) ==
  LET readyContent == getReadyContent(queue, now) IN
  /\ readyContent # <<>>
  /\ queue' = SetStatus(queue, readyContent[1].id, "publishing")
  /\ runs' = [runs EXCEPT ![r] = [pc |-> "publishing",
                                  readyContent |-> readyContent, idx |-> 1]]

\* processScheduledContent() from its start to its first await.
processScheduledContent ==
  IF getReadyContent(queue, now) # <<>>
    THEN BeginPublishAllReady("scheduled")
    ELSE /\ queue' = IF scheduleConfig.retryFailed
                       THEN retryFailedContent(queue, now) ELSE queue
         /\ runs' = runs

\* A direct call of publishAllReady().
PublishAllReady ==
  /\ runs["direct"].pc = "idle"
  /\ IF getReadyContent(queue, now) # <<>>
       THEN BeginPublishAllReady("direct")
       ELSE UNCHANGED <<queue, runs>>
  /\ UNCHANGED <<publisherVars, now, retryVars, bulkVars, scheduleConfig, ot, isRunning, intervalId>>

\* start(): the timer is created and processScheduledContent runs at once.
Start ==
  /\ ~isRunning
  /\ runs["scheduled"].pc = "idle"
  /\ isRunning' = TRUE
  /\ intervalId' = TRUE
  /\ processScheduledContent
  /\ UNCHANGED <<publisherVars, now, retryVars, bulkVars, scheduleConfig, ot>>

\* stop()
Stop ==
  /\ isRunning
  /\ isRunning' = FALSE
  /\ intervalId' = FALSE
  /\ UNCHANGED <<publisherVars, now, retryVars, bulkVars, queue, scheduleConfig, ot, runs>>

\* The 60 s timer fires.
TimerFires ==
  /\ intervalId
  /\ isRunning
  /\ runs["scheduled"].pc = "idle"
  /\ processScheduledContent
  /\ UNCHANGED <<publisherVars, now, retryVars, bulkVars, scheduleConfig, ot, isRunning, intervalId>>

\* How a publishToMultiple call ends: every platform succeeded, some result is
\* unsuccessful, or the call throws.
PublishOutcomes == {"success", "unsuccessful", "throws"}

\* publishToMultiple of run r's current item settles; the loop goes on to its
\* next await, or publishAllReady returns.
PublishSettles(r, outcome) ==
  LET run == runs[r]
      item == run.readyContent[run.idx]
      q1 == IF item.id \notin DOMAIN queue THEN queue
            ELSE IF outcome = "success"
              THEN [queue EXCEPT ![item.id].status = "published",
                                 ![item.id].publishResults = "successful",
                                 ![item.id].attempt = "successful"]
            ELSE IF outcome = "unsuccessful"
              THEN [queue EXCEPT ![item.id].status = "failed",
                                 ![item.id].publishResults = "unsuccessful",
                                 ![item.id].attempt = "unsuccessful"]
            ELSE [queue EXCEPT ![item.id].status = "failed",
                               ![item.id].retryCount = item.retryCount + 1,
                               ![item.id].attempt = "throws"]
  IN
  /\ run.pc = "publishing"
  /\ IF run.idx < Len(run.readyContent)
       THEN /\ queue' = SetStatus(q1, run.readyContent[run.idx + 1].id, "publishing")
            /\ runs' = [runs EXCEPT ![r].idx = run.idx + 1]
       ELSE /\ queue' = q1
            /\ runs' = [runs EXCEPT ![r] =
                          IF r = "scheduled"
                            THEN [IdleRun EXCEPT !.pc = "retry"]
                            ELSE IdleRun]
  /\ UNCHANGED <<publisherVars, now, retryVars, bulkVars, scheduleConfig, ot, isRunning, intervalId>>

\* processScheduledContent() after its publishAllReady() returned.
AfterPublishAllReady ==
  /\ runs["scheduled"].pc = "retry"
  /\ queue' = IF scheduleConfig.retryFailed
                THEN retryFailedContent(queue, now) ELSE queue
  /\ runs' = [runs EXCEPT !["scheduled"] = IdleRun]
  /\ UNCHANGED <<publisherVars, now, retryVars, bulkVars, scheduleConfig, ot, isRunning, intervalId>>

\* --------------------------------------- ContentScheduler.calculateOptimalTime
\* Times are minutes since the start (Sunday 00:00) of the week of `now`.
MinutesPerHour == 60

MinutesPerDay == 1440

DaysPerWeek == 7

\* A Date by its day (counted from that Sunday), hour and minute.
DateOf(day, hour, minute) == day * MinutesPerDay + hour * MinutesPerHour + minute

\* date.getDay() and the date's day counted from that Sunday.
DayOf(date) == date \div MinutesPerDay

\* createTimeForDay(baseDate, dayOfWeek, hour)
createTimeForDay(baseDate, dayOfWeek, hour) ==
  LET currentDay == DayOf(baseDate) % DaysPerWeek
      daysUntilTarget == (dayOfWeek - currentDay + DaysPerWeek) % DaysPerWeek
  IN DateOf(DayOf(baseDate) + daysUntilTarget, hour, 0)

\* The OptimalTime entries tried, and the platforms that can have some.
OptimalTimes == [dayOfWeek : {1, 2}, hour : {9, 15}, engagement : {0, 50, 90}]

SlotPlatforms == {"webflow", "wordpress"}

\* The loop of calculateOptimalTime over the entries of one platform (line
\* 362-370), from the best time and score found so far.
RECURSIVE BestOfTimes(_, _, _)
BestOfTimes(date, platformTimes, best) ==
  IF platformTimes = <<>> THEN best
  ELSE LET time == Head(platformTimes)
           scheduledTime == createTimeForDay(date, time.dayOfWeek, time.hour)
       IN BestOfTimes(date, Tail(platformTimes),
                      IF scheduledTime > date /\ time.engagement > best.bestScore
                        THEN [bestTime |-> scheduledTime, bestScore |-> time.engagement]
                        ELSE best)

\* The loop over the platforms (line 359-372); a platform without entries in
\* optimalTimes is skipped.
RECURSIVE BestOfPlatforms(_, _, _, _)
BestOfPlatforms(date, optimalTimes, platforms, best) ==
  IF platforms = <<>> THEN best
  ELSE BestOfPlatforms(date, optimalTimes, Tail(platforms),
                       IF Head(platforms) \in DOMAIN optimalTimes
                         THEN BestOfTimes(date, optimalTimes[Head(platforms)], best)
                         ELSE best)

\* calculateOptimalTime(platforms), with now = date. configured = the
\* scheduleConfig has optimalTimes.
calculateOptimalTime(date, configured, optimalTimes, platforms) ==
  IF ~configured THEN date + MinutesPerHour
  ELSE BestOfPlatforms(date, optimalTimes, platforms,
                       [bestTime |-> date + MinutesPerHour, bestScore |-> 0]).bestTime

\* No calculateOptimalTime call made so far, at time date under this
\* scheduleConfig.optimalTimes.
IdleOptimal(date, configured, optimalTimes) ==
  [pc |-> "idle", date |-> date, configured |-> configured,
   optimalTimes |-> optimalTimes, platforms |-> <<>>, result |-> 0]

\* The scheduler's state when calculateOptimalTime is not looked at.
NoOptimal == IdleOptimal(0, FALSE, <<>>)

\* addToQueue without scheduledFor calls calculateOptimalTime(platforms).
CalculateOptimalTime(platforms) ==
  /\ ot.pc = "idle"
  /\ ot' = [ot EXCEPT !.pc = "done", !.platforms = platforms,
                       !.result = calculateOptimalTime(ot.date, ot.configured,
                                                       ot.optimalTimes, platforms)]
  /\ UNCHANGED <<publisherVars, now, retryVars, bulkVars, queue, scheduleConfig,
                 isRunning, intervalId, runs>>

\* ---------------------------------------------------------- BulkPublisher
\* this.config.maxRetries || 3 and this.config.concurrency || 5
DefaultBulkMaxRetries == 3

DefaultConcurrency == 5

\* this.config.delayBetweenPublishes || 2000 (milliseconds)
DefaultDelayBetweenPublishes == 2000

\* What addItem is given besides the priority: the platforms of the item and,
\* as a property of its content, the platforms the tester finds it
\* incompatible with.
ItemInputs ==
  { [platforms |-> <<>>, incompatible |-> {}],
    [platforms |-> <<"webflow">>, incompatible |-> {}],
    [platforms |-> <<"webflow", "wordpress">>, incompatible |-> {}],
    [platforms |-> <<"webflow", "wordpress">>, incompatible |-> {"wordpress"}] }

\* How the last publishToMultiple call made for an item ended, kept beside the
\* item: no call ended yet, it threw, or it returned these results.
NoAttempt == [made |-> FALSE, thrown |-> FALSE, results |-> <<>>]

\* The identity of a content object: the queue and the item it was first
\* submitted with. Copies made from an item carry the same content.
Content(q, id) == [queue |-> q, id |-> id]

\* A new BulkPublishItem, as addItem builds it (publishResults undefined).
NewBulkPublishItem(content, priority, input) ==
  [content |-> content,
   status |-> "pending", priority |-> priority, platforms |-> input.platforms,
   incompatible |-> input.incompatible, retryCount |-> 0,
   hasResults |-> FALSE, publishResults |-> <<>>, attempt |-> NoAttempt]

\* getItemsByStatus(status): the ids, in insertion order.
getItemsByStatus(its, status) ==
  SelectSeq([i \in 1..Len(its) |-> i], LAMBDA i : its[i].status = status)

\* Array.from(testResults.values()).every(result => result.isCompatible)
isReady(item) ==
  \A k \in 1..Len(item.platforms) : item.platforms[k] \notin item.incompatible

\* testItem(item): testing, then ready or pending (no await in between).
\* testItem that takes every tested item for ready.
testItem_AlwaysReady(its, id) ==
  [its EXCEPT ![id].status = "ready"]

testItem(its, id) ==
  LET its1 == [its EXCEPT ![id].status = "testing"] IN
  [its1 EXCEPT ![id].status = IF isReady(its1[id]) THEN "ready" ELSE "pending"]

\* some() in place of every().
everySuccess_Some(results) ==
  \E k \in 1..Len(results) : results[k].success

\* publishResults.every(r => r.success)
everySuccess(results) ==
  \A k \in 1..Len(results) : results[k].success

\* The result arrays publishToMultiple can return for these platforms: one
\* PublishResult per platform, in order.
PublishResultsFor(platforms) ==
  { [k \in 1..Len(platforms) |-> [platform |-> platforms[k], success |-> f[k]]] :
      f \in [1..Len(platforms) -> BOOLEAN] }

\* A comparator that looks at createdAt only.
compareItems_CreatedOnly(its, a, b) ==
  a - b

\* The comparator of sortItemsByPriority; createdAt grows with the insertion
\* order, which is the id.
compareItems(its, a, b) ==
  LET priorityDiff == priorityOrder(its[b].priority) - priorityOrder(its[a].priority) IN
  IF priorityDiff # 0 THEN priorityDiff ELSE a - b

RECURSIVE InsertItem(_, _, _)
InsertItem(its, sorted, x) ==
  IF sorted = <<>> THEN <<x>>
  ELSE IF compareItems(its, x, Head(sorted)) < 0 THEN <<x>> \o sorted
  ELSE <<Head(sorted)>> \o InsertItem(its, Tail(sorted), x)

RECURSIVE sortItemsByPriority(_, _)
sortItemsByPriority(its, ids) ==
  IF ids = <<>> THEN <<>>
  ELSE InsertItem(its, sortItemsByPriority(its, SubSeq(ids, 1, Len(ids) - 1)),
                  ids[Len(ids)])

bulkMaxRetries ==
  IF bulkConfig.maxRetries = 0 THEN DefaultBulkMaxRetries ELSE bulkConfig.maxRetries

concurrency ==
  IF bulkConfig.concurrency = 0 THEN DefaultConcurrency ELSE bulkConfig.concurrency

\* const delay = this.config.delayBetweenPublishes || 2000 (line 229)
delay ==
  IF bulkConfig.delayBetweenPublishes = 0 THEN DefaultDelayBetweenPublishes
  ELSE bulkConfig.delayBetweenPublishes

\* The state of the publishAll invocation:
\*   pc           where it is suspended (idle = no invocation);
\*   pendingItems, idx   the snapshot of testAllItems and the items tested;
\*   sorted, i    sortedItems and the index of the first item of the batch;
\*   inflight     the items whose publishItem awaits publishToMultiple;
\*   settled      how the publishItem promises of the batch settled;
\*   failedItems, k   the snapshot of retryFailedItems and the loop position;
\*   attempted    how many times each item of sortedItems was handed to
\*                publishItem by the batch loop;
\*   retried      the items retryFailedItems handed to publishItem;
\*   rejected     the invocation ended by rejecting;
\*   refused      another publishAll call was made while this one was in
\*                progress, and threw;
\*   waves        the batches handed to publishItem so far, each in the order
\*                its items were set to publishing;
\*   delays       the delays awaited between batches so far (milliseconds);
\*   result       the counters, the results map (item id to the verdict on
\*                its results) and the errors list of the BulkPublishResult
\*                being built (an error message is modelled by the id of the
\*                item it names).
EmptyResult ==
  [successfulItems |-> 0, failedItems |-> 0, results |-> <<>>, errors |-> <<>>]

IdlePublishAll ==
  [pc |-> "idle", pendingItems |-> <<>>, idx |-> 0, sorted |-> <<>>, i |-> 0,
   inflight |-> {}, settled |-> <<>>, failedItems |-> <<>>, k |-> 0,
   attempted |-> <<>>, retried |-> {}, rejected |-> FALSE, refused |-> FALSE,
   waves |-> <<>>, delays |-> <<>>,
   result |-> EmptyResult]

IdleTestAll == [pc |-> "idle", pendingItems |-> <<>>, idx |-> 0]

Range(s) == {s[k] : k \in DOMAIN s}

\* The batch loop hands the batch that starts at index i of sortedItems to
\* publishItem (line 232-238): every item of the batch is set to publishing
\* and awaits publishToMultiple.
\* StartBatch with a batch one item too long (slice(i, i + concurrency + 1)).
StartBatch_OneMore(its, p, i) ==
  LET slice == SubSeq(p.sorted, i, Min(i + concurrency, Len(p.sorted)))
      batch == Range(slice) IN
  [its |-> [id \in DOMAIN its |->
              IF id \in batch THEN [its[id] EXCEPT !.status = "publishing"] ELSE its[id]],
   p |-> [p EXCEPT !.pc = "wave", !.i = i, !.inflight = batch, !.settled = <<>>,
                   !.waves = Append(p.waves, slice),
                   !.attempted = [id \in DOMAIN p.attempted |->
                                    IF id \in batch THEN p.attempted[id] + 1
                                                    ELSE p.attempted[id]]]]

StartBatch(its, p, i) ==
  LET slice == SubSeq(p.sorted, i, Min(i + concurrency - 1, Len(p.sorted)))
      batch == Range(slice) IN
  [its |-> [id \in DOMAIN its |->
              IF id \in batch THEN [its[id] EXCEPT !.status = "publishing"] ELSE its[id]],
   p |-> [p EXCEPT !.pc = "wave", !.i = i, !.inflight = batch, !.settled = <<>>,
                   !.waves = Append(p.waves, slice),
                   !.attempted = [id \in DOMAIN p.attempted |->
                                    IF id \in batch THEN p.attempted[id] + 1
                                                    ELSE p.attempted[id]]]]

\* publishAll from the ready snapshot on (line 196-206): no ready item, the
\* empty result is returned; else the items are sorted and the first batch
\* is started.
BeginWaves(its, p) ==
  LET readyItems == getItemsByStatus(its, "ready") IN
  IF readyItems = <<>>
    THEN [its |-> its, p |-> IdlePublishAll]
    ELSE LET sortedItems == sortItemsByPriority(its, readyItems) IN
         StartBatch(its, [p EXCEPT !.sorted = sortedItems,
                                   !.attempted = [id \in Range(sortedItems) |-> 0]], 1)

\* The loop of retryFailedItems from position k of its snapshot (line 339-351):
\* items at the limit are skipped; the first one below it is set to pending
\* with the snapshot's retryCount + 1, and the retry delay is awaited.
RetryScan(its, p, k) ==
  LET eligible == {j \in k..Len(p.failedItems) :
                     p.failedItems[j].retryCount < bulkMaxRetries} IN
  IF eligible = {}
    THEN [its |-> its, p |-> [p EXCEPT !.pc = "return"]]
    ELSE LET j == CHOOSE x \in eligible : \A y \in eligible : x <= y
             item == p.failedItems[j]
         IN [its |-> [its EXCEPT ![item.id].status = "pending",
                                 ![item.id].retryCount = item.retryCount + 1],
             p |-> [p EXCEPT !.pc = "retryDelay", !.k = j]]

\* publishItemsInBatches after its last batch (line 284-287).
AfterBatches(its, p) ==
  IF bulkConfig.retryFailed
    THEN LET failed == getItemsByStatus(its, "failed")
             failedItems == [n \in 1..Len(failed) |->
                               [id |-> failed[n], retryCount |-> its[failed[n]].retryCount]]
         IN RetryScan(its, [p EXCEPT !.failedItems = failedItems], 1)
    ELSE [its |-> its, p |-> [p EXCEPT !.pc = "return"]]

\* How the publishItem promise of an item settles, as the batch loop sees it.
\* Promise.all in place of Promise.allSettled: a rejection ends publishAll.
Settle_FailFast(p, id, verdict) ==
  IF p.pc = "wave" /\ verdict = "rejected"
    THEN [p EXCEPT !.pc = "return", !.inflight = {}, !.rejected = TRUE]
    ELSE [p EXCEPT !.inflight = p.inflight \ {id},
                   !.settled = IF p.pc = "wave" THEN (id :> verdict) @@ p.settled
                                                ELSE p.settled]

Settle(p, id, verdict) ==
  [p EXCEPT !.inflight = p.inflight \ {id},
            !.settled = IF p.pc = "wave" THEN (id :> verdict) @@ p.settled
                                         ELSE p.settled]

\* testItem awaits nothing that is pending, so a testAllItems loop, once
\* started, runs to its end within one drain of the microtask queue: other
\* calls and continuations of settled promises interleave with it, timers and
\* network completions do not. While it runs, publishToMultiple can settle
\* only in the ways that need no network: by throwing, or with results that
\* are all unsuccessful (content validation failed, platform not configured).
TestLoopRunning == tst.pc = "testing"

SettlesWithoutNetwork(thrown, results) ==
  thrown \/ \A k \in 1..Len(results) : ~results[k].success

\* addItem(content, platforms, priority)
AddItem(priority, input) ==
  /\ Len(items) < MaxBulkItems
  /\ items' = Append(items, NewBulkPublishItem(Content("bulk", Len(items) + 1),
                                                priority, input))
  /\ UNCHANGED <<publisherVars, now, retryVars, schedVars, bulkConfig, isPublishing, pub, tst, mgr>>

\* What addItems is given for one item: its priority and the rest.
ItemEntries ==
  [priority : {"medium", "urgent"},
   input : {[platforms |-> <<"webflow">>, incompatible |-> {}]}]

RECURSIVE AppendItems(_, _)
AppendItems(its, entries) ==
  IF entries = <<>> THEN its
  ELSE AppendItems(Append(its, NewBulkPublishItem(Content("bulk", Len(its) + 1),
                                                   Head(entries).priority,
                                                   Head(entries).input)),
                   Tail(entries))

\* addItems(contentItems), called on an empty publisher.
AddItems(contentItems) ==
  /\ items = <<>>
  /\ contentItems # <<>>
  /\ items' = AppendItems(items, contentItems)
  /\ UNCHANGED <<publisherVars, now, retryVars, schedVars, bulkConfig, isPublishing, pub, tst, mgr>>

\* testAllItems() called from outside publishAll, up to its first await: the
\* pending items are snapshotted and the first one is tested.
TestAllItems ==
  LET pendingItems == getItemsByStatus(items, "pending") IN
  /\ tst.pc = "idle"
  /\ pendingItems # <<>>
  /\ items' = testItem(items, pendingItems[1])
  /\ tst' = IF Len(pendingItems) = 1 THEN IdleTestAll
            ELSE [pc |-> "testing", pendingItems |-> pendingItems, idx |-> 1]
  /\ UNCHANGED <<publisherVars, now, retryVars, schedVars, bulkConfig, isPublishing, pub, mgr>>

\* The next pass of that testAllItems loop.
TestNext ==
  /\ tst.pc = "testing"
  /\ items' = testItem(items, tst.pendingItems[tst.idx + 1])
  /\ tst' = IF tst.idx + 1 = Len(tst.pendingItems) THEN IdleTestAll
            ELSE [tst EXCEPT !.idx = tst.idx + 1]
  /\ UNCHANGED <<publisherVars, now, retryVars, schedVars, bulkConfig, isPublishing, pub, mgr>>

\* publishAll() up to its first await. A call made while isPublishing throws
\* at once and changes nothing (line 183-185).
BeginPublishAll(its) ==
  IF bulkConfig.autoTest
    THEN LET pendingItems == getItemsByStatus(its, "pending") IN
         [its |-> IF pendingItems = <<>> THEN its
                  ELSE testItem(its, pendingItems[1]),
          p |-> [IdlePublishAll EXCEPT !.pc = "testing",
                                       !.pendingItems = pendingItems,
                                       !.idx = Min(1, Len(pendingItems))]]
    ELSE BeginWaves(its, IdlePublishAll)

PublishAll ==
  /\ ~isPublishing
  /\ pub.pc = "idle"
  /\ LET w == BeginPublishAll(items) IN
     /\ items' = w.its
     /\ pub' = w.p
     /\ isPublishing' = (w.p.pc # "idle")
  /\ UNCHANGED <<publisherVars, now, retryVars, schedVars, bulkConfig, tst, mgr>>

\* The state of the ContentManager.publishAllNow invocation:
\*   pc              idle, publishing (awaiting bulkPublisher.publishAll) or
\*                   update (publishAll resolved, the scheduler items are
\*                   about to be updated);
\*   schedulerReady  the snapshot of scheduler.getReadyContent();
\*   ready           the contents that were ready in either queue at the start;
\*   attempts        per content of ready, the publishToMultiple calls the
\*                   publishAll of this invocation made for it;
\*   results         the results map of the BulkPublishResult.
IdleManager ==
  [pc |-> "idle", schedulerReady |-> <<>>, ready |-> {}, attempts |-> <<>>,
   results |-> <<>>]

\* The publishToMultiple calls publishAll invocation p made for content c: by
\* the batch loop and by retryFailedItems.
Attempts(its, p, c) ==
  Cardinality(UNION {{<<id, n>> : n \in 1..p.attempted[id]} :
                       id \in {x \in DOMAIN p.attempted : its[x].content = c}})
  + Cardinality({id \in p.retried : its[id].content = c})

\* bulkPublisher.publishAll() resolved with the result of invocation p:
\* a publishAllNow that awaits it goes on (content-manager.ts line 178).
ManagerResumes(m, its, p) ==
  IF m.pc = "publishing"
    THEN [m EXCEPT !.pc = "update",
                   !.attempts = [c \in m.ready |-> Attempts(its, p, c)],
                   !.results = p.result.results]
    ELSE m

\* The testAllItems loop of publishAll goes on; after it, publishAll goes on
\* to the batches.
PublishAllTestNext ==
  /\ pub.pc = "testing"
  /\ IF pub.idx < Len(pub.pendingItems)
       THEN /\ items' = testItem(items, pub.pendingItems[pub.idx + 1])
            /\ pub' = [pub EXCEPT !.idx = pub.idx + 1]
            /\ UNCHANGED <<isPublishing, mgr>>
       ELSE LET w == BeginWaves(items, pub) IN
            /\ items' = w.its
            /\ pub' = w.p
            /\ isPublishing' = (w.p.pc # "idle")
            /\ mgr' = IF w.p.pc = "idle" THEN ManagerResumes(mgr, w.its, w.p)
                                         ELSE mgr
  /\ UNCHANGED <<publisherVars, now, retryVars, schedVars, bulkConfig, tst>>

\* publishItem after its await (line 319-329): publishToMultiple returned
\* results, or threw.
PublishItemSettles(id, thrown, results) ==
  /\ id \in pub.inflight
  /\ TestLoopRunning => SettlesWithoutNetwork(thrown, results)
  /\ items' = IF thrown
                THEN [items EXCEPT ![id].status = "failed",
                                   ![id].attempt = [made |-> TRUE, thrown |-> TRUE,
                                                    results |-> <<>>]]
                ELSE [items EXCEPT ![id].publishResults = results,
                                   ![id].hasResults = TRUE,
                                   ![id].status = IF everySuccess(results)
                                                    THEN "published" ELSE "failed",
                                   ![id].attempt = [made |-> TRUE, thrown |-> FALSE,
                                                    results |-> results]]
  /\ pub' = Settle(pub, id, IF thrown THEN "rejected"
                            ELSE IF everySuccess(results) THEN "successful"
                            ELSE "unsuccessful")
  /\ UNCHANGED <<publisherVars, now, retryVars, schedVars, bulkConfig, isPublishing, tst, mgr>>

\* The batch whose first item is at index p.i of sortedItems (line 233).
Batch(p) == SubSeq(p.sorted, p.i, Min(p.i + concurrency - 1, Len(p.sorted)))

\* The loop over batchResults (line 241-276) on the counters and the errors
\* list: a fulfilled promise counts the item as successful or failed by its
\* results, a rejected one pushes a message and counts the item as failed.
ProcessBatchResults(p) ==
  LET batch == Batch(p)
      Is(v) == {n \in 1..Len(batch) : p.settled[batch[n]] = v}
      Rejected(id) == p.settled[id] = "rejected"
  IN [successfulItems |-> p.result.successfulItems + Cardinality(Is("successful")),
      failedItems |-> p.result.failedItems
                        + Cardinality(Is("unsuccessful")) + Cardinality(Is("rejected")),
      results |-> [id \in {x \in Range(batch) : p.settled[x] # "rejected"}
                          \cup DOMAIN p.result.results |->
                     IF id \in Range(batch) THEN p.settled[id]
                                            ELSE p.result.results[id]],
      errors |-> p.result.errors \o SelectSeq(batch, Rejected)]

\* i + concurrency < items.length (line 279), i counting from 0: another
\* batch follows the one that starts at index p.i.
MoreBatches(p) ==
  p.i + concurrency <= Len(p.sorted)

\* Promise.allSettled of the batch resolved (line 241-287): the statuses are
\* set and the result is updated from the settled promises; then the delay
\* before the next batch, or the retry phase.
BatchSettled ==
  /\ pub.pc = "wave"
  /\ pub.inflight = {}
  /\ LET its1 == [id \in DOMAIN items |->
                    IF id \in DOMAIN pub.settled
                      THEN [items[id] EXCEPT !.status =
                              IF pub.settled[id] = "successful" THEN "published"
                                                                ELSE "failed"]
                      ELSE items[id]]
         pub1 == [pub EXCEPT !.result = ProcessBatchResults(pub)]
     IN IF MoreBatches(pub)
          THEN /\ items' = its1
               /\ pub' = [pub1 EXCEPT !.pc = "delay", !.delays = Append(pub.delays, delay)]
          ELSE LET w == AfterBatches(its1, pub1) IN
               /\ items' = w.its
               /\ pub' = w.p
  /\ UNCHANGED <<publisherVars, now, retryVars, schedVars, bulkConfig, isPublishing, tst, mgr>>

\* The delay between two batches is over: the loop goes on (i += concurrency,
\* i < items.length) with the next batch, or ends.
DelayEnds ==
  /\ pub.pc = "delay"
  /\ ~TestLoopRunning
  /\ LET w == IF pub.i + concurrency <= Len(pub.sorted)
                THEN StartBatch(items, pub, pub.i + concurrency)
                ELSE AfterBatches(items, pub) IN
     /\ items' = w.its
     /\ pub' = w.p
  /\ UNCHANGED <<publisherVars, now, retryVars, schedVars, bulkConfig, isPublishing, tst, mgr>>

\* The retry delay is over: publishItem(item) for the item being retried.
RetryDelayEnds ==
  /\ pub.pc = "retryDelay"
  /\ ~TestLoopRunning
  /\ LET id == pub.failedItems[pub.k].id IN
     /\ items' = [items EXCEPT ![id].status = "publishing"]
     /\ pub' = [pub EXCEPT !.pc = "retryPublish", !.inflight = {id},
                           !.retried = pub.retried \cup {id}]
  /\ UNCHANGED <<publisherVars, now, retryVars, schedVars, bulkConfig, isPublishing, tst, mgr>>

\* The retried publishItem settled: the retry loop goes on.
RetryNext ==
  /\ pub.pc = "retryPublish"
  /\ pub.inflight = {}
  /\ LET w == RetryScan(items, pub, pub.k + 1) IN
     /\ items' = w.its
     /\ pub' = w.p
  /\ UNCHANGED <<publisherVars, now, retryVars, schedVars, bulkConfig, isPublishing, tst, mgr>>

\* publishAll() called while isPublishing: it throws 'Bulk publishing is
\* already in progress' before its try block (line 183-185).
PublishAllRefused ==
  /\ isPublishing
  /\ ~pub.refused
  /\ pub' = [pub EXCEPT !.refused = TRUE]
  /\ UNCHANGED <<publisherVars, now, retryVars, schedVars, items, bulkConfig, isPublishing, tst, mgr>>

\* publishAll returning without its finally block.
PublishAllReturns_KeepFlag ==
  /\ pub.pc = "return"
  /\ pub' = IdlePublishAll
  /\ mgr' = ManagerResumes(mgr, items, pub)
  /\ UNCHANGED <<publisherVars, now, retryVars, schedVars, items, bulkConfig, isPublishing, tst>>

\* publishAll returns its result (finally: isPublishing = false).
PublishAllReturns ==
  /\ pub.pc = "return"
  /\ isPublishing' = FALSE
  /\ pub' = IdlePublishAll
  /\ mgr' = ManagerResumes(mgr, items, pub)
  /\ UNCHANGED <<publisherVars, now, retryVars, schedVars, items, bulkConfig, tst>>

\* ------------------------------------------------- ContentManager.publishAllNow

\* The id strings of the two queues: `bulk_...` (generateItemId) and
\* `content_...` (generateContentId).
ItemId(prefix, n) == <<prefix, n>>

\* The entries addItems makes of allReadyContent (content-manager.ts line
\* 157-177): one new pending item per ready scheduler item and per ready bulk
\* item, with the content and platforms of the original and the default
\* priority. platforms are those of the scheduler items, which the
\* scheduler's test found compatible.
ReadyCopies(schedulerReady, bulkReady, platforms) ==
  [n \in 1..Len(schedulerReady) |->
     NewBulkPublishItem(Content("scheduler", schedulerReady[n].id), "medium",
                        [platforms |-> platforms, incompatible |-> {}])]
  \o [n \in 1..Len(bulkReady) |->
        NewBulkPublishItem(items[bulkReady[n]].content, "medium",
                           [platforms |-> items[bulkReady[n]].platforms,
                            incompatible |-> items[bulkReady[n]].incompatible])]

\* publishAllNow() up to its await of bulkPublisher.publishAll() (line
\* 145-178). With nothing ready it returns the empty result and changes
\* nothing. A publishAll already in progress makes publishAll throw, and
\* publishAllNow rejects after it has added the copies.
PublishAllNow(platforms) ==
  LET schedulerReady == getReadyContent(queue, now)
      bulkReady == getItemsByStatus(items, "ready")
      its1 == items \o ReadyCopies(schedulerReady, bulkReady, platforms)
      started == [IdleManager EXCEPT
                    !.pc = "publishing",
                    !.schedulerReady = schedulerReady,
                    !.ready = {Content("scheduler", schedulerReady[n].id) :
                                 n \in 1..Len(schedulerReady)}
                              \cup {items[id].content : id \in Range(bulkReady)}]
  IN
  /\ schedulerReady # <<>> \/ bulkReady # <<>>
  /\ Len(its1) <= MaxNowItems
  /\ IF isPublishing
       THEN /\ items' = its1
            /\ UNCHANGED <<isPublishing, pub, mgr>>
       ELSE /\ mgr.pc = "idle"
            /\ LET w == BeginPublishAll(its1) IN
               /\ items' = w.its
               /\ pub' = w.p
               /\ isPublishing' = (w.p.pc # "idle")
               /\ mgr' = IF w.p.pc = "idle"
                           THEN ManagerResumes(started, w.its, w.p)
                           ELSE started
  /\ UNCHANGED <<publisherVars, now, retryVars, schedVars, bulkConfig, tst>>

\* publishAllNow after publishAll resolved (line 181-193): every scheduler
\* item of the snapshot whose id is a key of result.results is updated from
\* those results; then publishAllNow returns.
PublishAllNowReturns ==
  LET snapshot == {mgr.schedulerReady[n].id : n \in 1..Len(mgr.schedulerReady)}
      Keys(id) == {b \in DOMAIN mgr.results :
                     ItemId("bulk", b) = ItemId("content", id)}
  IN
  /\ mgr.pc = "update"
  /\ queue' = [id \in DOMAIN queue |->
                 IF id \in snapshot /\ Keys(id) # {}
                   THEN LET b == CHOOSE x \in Keys(id) : TRUE IN
                        [queue[id] EXCEPT
                           !.status = IF mgr.results[b] = "successful"
                                        THEN "published" ELSE "failed",
                           !.publishResults = mgr.results[b]]
                   ELSE queue[id]]
  /\ mgr' = IdleManager
  /\ UNCHANGED <<publisherVars, now, retryVars, scheduleConfig, ot, isRunning, intervalId, runs,
                 items, bulkConfig, isPublishing, pub, tst>>

\* ------------------------------------------------------- AIContentPublisher

\* The platforms publish() routes to an adapter.
Platforms == {"webflow", "wordpress"}

\* options.concurrency || 5
DefaultBatchConcurrency == 5

\* Sequences over S of length at most n.
SeqUpTo(S, n) == UNION {[1..k -> S] : k \in 0..n}

\* A PublishResult: success, platform and message. item is the position, in
\* the request, of the platform or content item the result was produced for.
Result(item, success, platform, message) ==
  [item |-> item, success |-> success, platform |-> platform, message |-> message]

\* createErrorResult(platform, message)
createErrorResult(item, platform) ==
  Result(item, FALSE, platform, "not configured")

\* The promise of one publish(content, platform) call: settled at once with a
\* failed result when the content is invalid or the platform has no adapter,
\* else pending on adapter.publishContent(content).
\* publish() without its validation step.
publish_NoValidation(item, valid, platform, configured) ==
  IF platform \notin configured
    THEN [state |-> "fulfilled", value |-> createErrorResult(item, platform)]
    ELSE [state |-> "pending", value |-> Result(item, FALSE, platform, "")]

publish(item, valid, platform, configured) ==
  IF ~valid
    THEN [state |-> "fulfilled",
          value |-> Result(item, FALSE, platform, "Content validation failed")]
  ELSE IF platform \notin configured
    THEN [state |-> "fulfilled", value |-> createErrorResult(item, platform)]
    ELSE [state |-> "pending", value |-> Result(item, FALSE, platform, "")]

\* A publish() call not made yet (a later group of batchPublish).
NotStarted(item, platform) ==
  [state |-> "notStarted", value |-> Result(item, FALSE, platform, "")]

\* The adapter calls the promises of these slots stand for.
AdapterCalls(slots, from, to) ==
  SelectSeq([n \in 1..(to - from + 1) |-> slots[from + n - 1]],
            LAMBDA sl : sl.state = "pending")

\* publishToMultiple's loop over the settled promises (line 147-159): the
\* value of a fulfilled promise, a failed result for the platform of a
\* rejected one.
\* The loop with the first platform in every failed result.
CollectResults_FirstPlatform(slots, platforms) ==
  [n \in 1..Len(slots) |->
     IF slots[n].state = "fulfilled" THEN slots[n].value
     ELSE Result(n, FALSE, platforms[1], "Publish operation failed")]

CollectResults(slots, platforms) ==
  [n \in 1..Len(slots) |->
     IF slots[n].state = "fulfilled" THEN slots[n].value
     ELSE Result(n, FALSE, platforms[n], "Publish operation failed")]

\* The state of the publisher:
\*   configured  the platforms whose adapter is set;
\*   op          the last call made (idle = none so far);
\*   valid       per content item of the call, whether validateContent
\*               accepts it (one item for publish and publishToMultiple);
\*   platforms   the platforms of the call;
\*   concurrency, stopOnError   the options of batchPublish;
\*   slots       the promises of the publish() calls, by request position;
\*   i           batchPublish: the position of the first item of the group;
\*   done        that call has returned;
\*   results     the array it returned, or builds;
\*   calls       the adapter.publishContent calls the call made so far.
IdlePublisher(configured) ==
  [configured |-> configured, op |-> "idle", valid |-> <<>>, platforms |-> <<>>,
   concurrency |-> 0, stopOnError |-> FALSE, slots |-> <<>>, i |-> 0,
   done |-> FALSE, results |-> <<>>, calls |-> <<>>]

Pending(slots) == {n \in 1..Len(slots) : slots[n].state = "pending"}

\* No call is in progress.
Free(a) == a.op = "idle" \/ a.done

\* publish(content, platform), up to its await.
Publish(valid, platform) ==
  /\ Free(ap)
  /\ LET slot == publish(1, valid, platform, ap.configured)
         call == [IdlePublisher(ap.configured) EXCEPT
                    !.op = "publish",
                    !.valid = <<valid>>, !.platforms = <<platform>>,
                    !.slots = <<slot>>, !.calls = AdapterCalls(<<slot>>, 1, 1)]
     IN ap' = IF slot.state = "pending"
                THEN call
                ELSE [call EXCEPT !.done = TRUE, !.results = <<slot.value>>]
  /\ UNCHANGED <<now, retryVars, schedVars, bulkVars, ct>>

\* publishToMultiple(content, platforms), up to its await (line 130-146).
PublishToMultiple(valid, platforms) ==
  /\ Free(ap)
  /\ LET slots == [n \in 1..Len(platforms) |->
                     publish(n, valid, platforms[n], ap.configured)]
         call == [IdlePublisher(ap.configured) EXCEPT
                    !.op = "publishToMultiple",
                    !.valid = <<valid>>, !.platforms = platforms]
     IN ap' = IF ~valid
                THEN [call EXCEPT
                        !.done = TRUE,
                        !.results = [n \in 1..Len(platforms) |->
                                       Result(n, FALSE, platforms[n],
                                              "Content validation failed")]]
                ELSE [call EXCEPT !.slots = slots,
                                  !.calls = AdapterCalls(slots, 1, Len(slots))]
  /\ UNCHANGED <<now, retryVars, schedVars, bulkVars, ct>>

\* The group of batchPublish that starts at position i (line 1194-1196 of
\* config-manager.ts): publish() is called for each of its items.
StartGroup(a, i) ==
  LET last == Min(i + a.concurrency - 1, Len(a.valid))
      slots == [n \in 1..Len(a.slots) |->
                  IF n >= i /\ n <= last
                    THEN publish(n, a.valid[n], a.platforms[1], a.configured)
                    ELSE a.slots[n]]
  IN [a EXCEPT !.i = i, !.slots = slots,
               !.calls = a.calls \o AdapterCalls(slots, i, last)]

\* batchPublish(contentItems, platform, {concurrency, stopOnError}), up to its
\* first await; with no item it returns the empty array.
BatchPublish(valid, platform, c, stopOnError) ==
  /\ Free(ap)
  /\ LET call == [IdlePublisher(ap.configured) EXCEPT
                    !.op = "batchPublish",
                    !.valid = valid, !.platforms = <<platform>>,
                    !.concurrency = IF c = 0 THEN DefaultBatchConcurrency
                                             ELSE c,
                    !.stopOnError = stopOnError,
                    !.slots = [n \in 1..Len(valid) |-> NotStarted(n, platform)]]
     IN ap' = IF valid = <<>>
                THEN [call EXCEPT !.done = TRUE]
                ELSE StartGroup(call, 1)
  /\ UNCHANGED <<now, retryVars, schedVars, bulkVars, ct>>

\* adapter.publishContent of slot n settles: it returns a PublishResult for
\* its own platform, or throws.
AdapterSettles(n, throws, success) ==
  /\ n \in Pending(ap.slots)
  /\ ap' = [ap EXCEPT
              !.slots[n] =
                 IF throws
                   THEN [state |-> "rejected", value |-> ap.slots[n].value]
                   ELSE [state |-> "fulfilled",
                         value |-> Result(n, success, ap.slots[n].value.platform,
                                          "adapter")]]
  /\ UNCHANGED <<now, retryVars, schedVars, bulkVars, ct>>

\* publish() returns what its adapter returned, or rejects as it did.
PublishReturns ==
  /\ ap.op = "publish" /\ ~ap.done
  /\ Pending(ap.slots) = {}
  /\ ap' = [ap EXCEPT !.done = TRUE,
                      !.results = IF ap.slots[1].state = "fulfilled"
                                    THEN <<ap.slots[1].value>> ELSE <<>>]
  /\ UNCHANGED <<now, retryVars, schedVars, bulkVars, ct>>

\* Promise.allSettled of publishToMultiple resolved: the results are collected
\* and returned.
PublishToMultipleReturns ==
  /\ ap.op = "publishToMultiple" /\ ~ap.done
  /\ Pending(ap.slots) = {}
  /\ ap' = [ap EXCEPT !.done = TRUE,
                      !.results = CollectResults(ap.slots, ap.platforms)]
  /\ UNCHANGED <<now, retryVars, schedVars, bulkVars, ct>>

\* batchPublish's loop over the settled promises of a group (line 1200-1219):
\* results are pushed in order; with stopOnError the first failed one ends the
\* call. stopped = the position in the group at which the call returns, 0 if
\* it does not.
GroupResults(a) ==
  LET last == Min(a.i + a.concurrency - 1, Len(a.valid))
      group == [n \in 1..(last - a.i + 1) |->
                  IF a.slots[a.i + n - 1].state = "fulfilled"
                    THEN a.slots[a.i + n - 1].value
                    ELSE Result(a.i + n - 1, FALSE, a.platforms[1],
                                "Batch publish failed")]
      failing == {n \in 1..Len(group) : ~group[n].success}
      stopped == IF a.stopOnError /\ failing # {}
                   THEN CHOOSE n \in failing : \A x \in failing : n <= x
                   ELSE 0
  IN [results |-> IF stopped = 0 THEN group ELSE SubSeq(group, 1, stopped),
      stopped |-> stopped]

\* Promise.allSettled of a group resolved: its results are pushed; then the
\* next group starts, or batchPublish returns.
\* The step with the next group started one item too early.
GroupSettled_Overlap(a) ==
  LET g == GroupResults(a)
      a1 == [a EXCEPT !.results = a.results \o g.results]
  IN IF g.stopped # 0 \/ a.i + a.concurrency > Len(a.valid)
       THEN [a1 EXCEPT !.done = TRUE]
       ELSE StartGroup(a1, a.i + a.concurrency - 1)

GroupSettled(a) ==
  LET g == GroupResults(a)
      a1 == [a EXCEPT !.results = a.results \o g.results]
  IN IF g.stopped # 0 \/ a.i + a.concurrency > Len(a.valid)
       THEN [a1 EXCEPT !.done = TRUE]
       ELSE StartGroup(a1, a.i + a.concurrency)

BatchGroupSettled ==
  /\ ap.op = "batchPublish" /\ ~ap.done
  /\ Pending(ap.slots) = {}
  /\ ap' = GroupSettled(ap)
  /\ UNCHANGED <<now, retryVars, schedVars, bulkVars, ct>>

\* ------------------------------------------------------------ ContentTester

\* PlatformType (types/content).
PlatformType ==
  {"webflow", "wordpress", "ghost", "medium", "reddit", "blogger",
   "instagram", "linkedin", "facebook", "twitter", "tumblr", "substack"}

\* PlatformRequirements with nothing set: 0 and {} stand for an absent field
\* (the code tests the numbers for truthiness). No platform sets
\* requiredFields.
NoRequirement ==
  [maxTitleLength |-> 0, maxContentLength |-> 0, maxExcerptLength |-> 0,
   maxTags |-> 0, maxHashtags |-> 0, supportedContentTypes |-> {},
   imageRequirements |-> FALSE, maxCount |-> 0]

\* initializePlatformRequirements(): the platforms that have requirements.
platformRequirements ==
  [twitter |-> [NoRequirement EXCEPT
                  !.maxTitleLength = 280, !.maxContentLength = 280,
                  !.maxHashtags = 3,
                  !.supportedContentTypes = {"social-post", "twitter-thread"}],
   linkedin |-> [NoRequirement EXCEPT
                  !.maxTitleLength = 200, !.maxContentLength = 3000,
                  !.maxExcerptLength = 300, !.maxHashtags = 5,
                  !.supportedContentTypes = {"social-post", "linkedin-article"}],
   instagram |-> [NoRequirement EXCEPT
                  !.maxContentLength = 2200, !.maxHashtags = 30,
                  !.supportedContentTypes = {"social-post", "social-story",
                                             "social-reel", "social-carousel"},
                  !.imageRequirements = TRUE, !.maxCount = 10],
   medium |-> [NoRequirement EXCEPT
                  !.maxTitleLength = 100, !.maxContentLength = 1000000,
                  !.maxTags = 5,
                  !.supportedContentTypes = {"article", "medium-story"}],
   ghost |-> [NoRequirement EXCEPT
                  !.maxTitleLength = 200, !.maxContentLength = 1000000,
                  !.maxExcerptLength = 300,
                  !.supportedContentTypes = {"blog", "article"}],
   wordpress |-> [NoRequirement EXCEPT
                  !.maxTitleLength = 200, !.maxContentLength = 1000000,
                  !.maxExcerptLength = 300,
                  !.supportedContentTypes = {"blog", "article", "page"}],
   webflow |-> [NoRequirement EXCEPT
                  !.maxTitleLength = 200, !.maxContentLength = 1000000,
                  !.supportedContentTypes = {"blog", "article", "landing-page"}],
   substack |-> [NoRequirement EXCEPT
                  !.maxTitleLength = 200, !.maxContentLength = 1000000,
                  !.maxExcerptLength = 300,
                  !.supportedContentTypes = {"newsletter", "newsletter-issue",
                                             "article"}]]

\* The longest Twitter thread that draws no issue (line 372).
MaxThreadLength == 2800

\* The contents tried, by what the tester looks at: the content type, the
\* lengths of title, content and excerpt (0 = no excerpt), the numbers of tags
\* and of hashtags in the text, the number of images (-1 = images not set),
\* whether the text contains '!!!' or '???', and the total length of the
\* tweets of twitterThread (0 = no twitterThread).
Contents ==
  [type : {"blog", "article", "social-post", "twitter-thread"},
   titleLength : {100, 101, 201, 281},
   contentLength : {280, 3001},
   excerptLength : {0, 301},
   tags : {0, 6},
   hashtags : {0, 4},
   images : {-1, 0, 11},
   casual : BOOLEAN,
   threadLength : {0, 2801}]

\* A content that draws no issue on the CMS platforms.
PlainContent ==
  [type |-> "blog", titleLength |-> 100, contentLength |-> 280,
   excerptLength |-> 0, tags |-> 0, hashtags |-> 0, images |-> -1,
   casual |-> FALSE, threadLength |-> 0]

\* A ContentIssue pushed when cond holds, with the amount the check takes
\* off the score.
Issue(cond, field, severity, penalty) ==
  IF cond THEN <<[field |-> field, severity |-> severity, penalty |-> penalty]>>
          ELSE <<>>

\* The title check reporting a long title with severity medium.
titleIssue_Medium(content, r) ==
  Issue(r.maxTitleLength # 0 /\ content.titleLength > r.maxTitleLength,
        "title", "medium", 30)

\* The title length check (line 170-180).
titleIssue(content, r) ==
  Issue(r.maxTitleLength # 0 /\ content.titleLength > r.maxTitleLength,
        "title", "high", 30)

\* testPlatformSpecificRequirements(content, platform)
testPlatformSpecificRequirements(content, platform) ==
  Issue(platform = "twitter" /\ content.type = "twitter-thread"
          /\ content.threadLength # 0 /\ content.threadLength > MaxThreadLength,
        "twitterThread", "medium", 5)
  \o Issue(platform = "linkedin" /\ content.casual, "content", "low", 5)
  \o Issue(platform = "instagram" /\ content.images <= 0, "images", "medium", 5)

\* The issues of testContentForPlatform in the order it pushes them
\* (line 158-259).
testIssues(content, platform) ==
  LET r == platformRequirements[platform] IN
  Issue(r.supportedContentTypes # {} /\ content.type \notin r.supportedContentTypes,
        "type", "medium", 20)
  \o titleIssue(content, r)
  \o Issue(r.maxContentLength # 0 /\ content.contentLength > r.maxContentLength,
           "content", "high", 30)
  \o Issue(r.maxExcerptLength # 0 /\ content.excerptLength # 0
             /\ content.excerptLength > r.maxExcerptLength,
           "excerpt", "medium", 10)
  \o Issue(r.maxTags # 0 /\ content.tags > r.maxTags, "tags", "medium", 10)
  \o Issue(r.maxHashtags # 0 /\ content.hashtags > r.maxHashtags,
           "hashtags", "medium", 10)
  \o Issue(r.imageRequirements /\ content.images >= 0
             /\ r.maxCount # 0 /\ content.images > r.maxCount,
           "images", "high", 5)
  \o testPlatformSpecificRequirements(content, platform)

RECURSIVE Penalties(_)
Penalties(issues) ==
  IF issues = <<>> THEN 0 ELSE Head(issues).penalty + Penalties(Tail(issues))

Max(a, b) == IF a > b THEN a ELSE b

\* testContentForPlatform(content, platform)
testContentForPlatform(content, platform) ==
  IF platform \notin DOMAIN platformRequirements
    THEN [platform |-> platform, isCompatible |-> FALSE, score |-> 0,
          issues |-> <<[field |-> "platform", severity |-> "critical",
                        penalty |-> 0]>>]
    ELSE LET issues == testIssues(content, platform) IN
         [platform |-> platform,
          isCompatible |-> \A n \in 1..Len(issues) :
                             issues[n].severity \notin {"critical", "high"},
          score |-> Max(0, 100 - Penalties(issues)),
          issues |-> issues]

\* Array.prototype.sort with (a, b) => b.result.score - a.result.score: a
\* stable sort by descending score.
RECURSIVE InsertByScore(_, _, _)
InsertByScore(content, sorted, x) ==
  IF sorted = <<>> THEN <<x>>
  ELSE IF testContentForPlatform(content, Head(sorted)).score
            >= testContentForPlatform(content, x).score
    THEN <<Head(sorted)>> \o InsertByScore(content, Tail(sorted), x)
    ELSE <<x>> \o sorted

RECURSIVE sortByScore(_, _)
sortByScore(content, platforms) ==
  IF platforms = <<>> THEN <<>>
  ELSE InsertByScore(content,
                     sortByScore(content, SubSeq(platforms, 1, Len(platforms) - 1)),
                     platforms[Len(platforms)])

\* getBestPlatformsForContent(content, availablePlatforms)
getBestPlatformsForContent(content, availablePlatforms) ==
  sortByScore(content,
              SelectSeq(availablePlatforms,
                        LAMBDA pl : testContentForPlatform(content, pl).isCompatible))

\* The tester's last call: op (idle, test, best), its arguments and what it
\* returned.
NoTestResult == [platform |-> "", isCompatible |-> FALSE, score |-> 0, issues |-> <<>>]

IdleTester(content) ==
  [op |-> "idle", content |-> content, platform |-> "", available |-> <<>>,
   result |-> NoTestResult, best |-> <<>>]

\* The platform lists given to getBestPlatformsForContent are made of these.
AvailablePlatforms == {"medium", "reddit", "webflow", "wordpress"}

\* One call is followed per content: the tester keeps no state between calls.
TestContentForPlatform(platform) ==
  /\ ct.op = "idle"
  /\ ct' = [IdleTester(ct.content) EXCEPT
              !.op = "test", !.platform = platform,
              !.result = testContentForPlatform(ct.content, platform)]
  /\ UNCHANGED <<now, retryVars, schedVars, bulkVars, ap>>

GetBestPlatformsForContent(availablePlatforms) ==
  /\ ct.op = "idle"
  /\ ct' = [IdleTester(ct.content) EXCEPT
              !.op = "best", !.available = availablePlatforms,
              !.best = getBestPlatformsForContent(ct.content, availablePlatforms)]
  /\ UNCHANGED <<now, retryVars, schedVars, bulkVars, ap>>

\* ------------------------------------------------------------------ clock
Tick ==
  /\ now < MaxTime
  /\ now' = now + 1
  /\ UNCHANGED <<publisherVars, cb, threshold, resetTimeMs, defaultConfig, hist, direct, rh, schedVars, bulkVars>>

\* The scheduler's clock advances.
SchedTick ==
  /\ now < MaxSchedTime
  /\ now' = now + 1
  /\ UNCHANGED <<publisherVars, retryVars, schedVars, bulkVars>>

\* ---------------------------------------------------------- specifications
\* The retry handler after construction, no breaker used yet.
NoBackoff ==
  [baseDelayMs |-> 1, maxDelayMs |-> 1, exponentialBackoff |-> FALSE, jitterMs |-> 0]

InitRetryHandler ==
  /\ defaultConfig = NoBackoff
  /\ cb = NewCircuitBreaker
  /\ hist = NoHistory
  /\ direct = [d \in DirectCallers |-> "idle"]
  /\ rh = IdleCall

\* The scheduler after construction: empty queue, not running.
InitScheduler ==
  /\ ot = NoOptimal
  /\ queue = <<>>
  /\ isRunning = FALSE
  /\ intervalId = FALSE
  /\ runs = [r \in Runs |-> IdleRun]

\* The publisher after construction and configuration.
InitPublisher == ap \in {IdlePublisher(c) : c \in SUBSET Platforms}

\* A publisher and a tester that are not called directly.
PublisherUnused == ap = IdlePublisher(Platforms) /\ ct = IdleTester(PlainContent)

\* The bulk publisher after construction: no item, no publishAll in progress.
InitBulkPublisher ==
  /\ items = <<>>
  /\ isPublishing = FALSE
  /\ pub = IdlePublishAll
  /\ tst = IdleTestAll
  /\ mgr = IdleManager

\* The configuration ContentManager gives its bulk publisher by default.
ManagerBulkConfig ==
  [concurrency |-> 3, autoTest |-> TRUE, retryFailed |-> TRUE, maxRetries |-> 3,
   delayBetweenPublishes |-> DefaultDelayBetweenPublishes]

\* Breaker and retry handler under every configuration; the scheduler idle.
InitRetry ==
  /\ now = 1
  /\ PublisherUnused
  /\ InitRetryHandler
  /\ threshold \in 1..MaxThreshold
  /\ resetTimeMs \in 1..MaxResetTime
  /\ InitScheduler
  /\ scheduleConfig = [autoTest |-> FALSE, retryFailed |-> FALSE, maxRetries |-> 0]
  /\ InitBulkPublisher
  /\ bulkConfig = ManagerBulkConfig

\* The scheduler under every configuration; the retry handler idle.
InitSched ==
  /\ now = 1
  /\ PublisherUnused
  /\ InitRetryHandler
  /\ threshold = 1
  /\ resetTimeMs = 1
  /\ InitScheduler
  /\ scheduleConfig \in [autoTest : BOOLEAN, retryFailed : BOOLEAN,
                          maxRetries : 0..MaxSchedRetries]
  /\ InitBulkPublisher
  /\ bulkConfig = ManagerBulkConfig

\* The configuration of a scheduler that is not exercised.
IdleScheduleConfig == [autoTest |-> FALSE, retryFailed |-> FALSE, maxRetries |-> 0]

\* The bulk publisher under every configuration; the rest idle.
InitBulk ==
  /\ now = 1
  /\ PublisherUnused
  /\ InitRetryHandler
  /\ threshold = 1
  /\ resetTimeMs = 1
  /\ InitScheduler
  /\ scheduleConfig = IdleScheduleConfig
  /\ InitBulkPublisher
  /\ bulkConfig \in [concurrency : 1..MaxConcurrency, autoTest : BOOLEAN,
                      retryFailed : BOOLEAN, maxRetries : 0..MaxBulkRetries,
                      delayBetweenPublishes : {DefaultDelayBetweenPublishes}]

\* The circuit breaker under overlapping direct calls and reset.
NextBreaker ==
  \/ \E d \in DirectCallers : DirectExecute(d)
  \/ \E d \in DirectCallers : DirectSuccess(d)
  \/ \E d \in DirectCallers : DirectFailure(d)
  \/ ResetCircuitBreaker
  \/ Tick

SpecBreaker == InitRetry /\ [][NextBreaker]_vars

\* Successive executeWithRetry calls, with and without the breaker key.
NextRetry ==
  \/ \E k \in BOOLEAN, m \in 0..MaxRetries, r \in RetryableErrorLists :
       ExecuteWithRetry(k, m, r)
  \/ Attempt
  \/ OperationSucceeds
  \/ \E e \in OpErrors : OperationFails(e)
  \/ Wake
  \/ Tick

SpecRetry == InitRetry /\ [][NextRetry]_vars

\* calculateOptimalTime on a Monday, before, at and after the hours of the
\* entries, under every optimalTimes of up to MaxSlots entries for webflow and
\* one for wordpress, and without optimalTimes.
InitOptimal ==
  /\ now = 1
  /\ PublisherUnused
  /\ InitRetryHandler
  /\ threshold = 1
  /\ resetTimeMs = 1
  /\ queue = <<>>
  /\ isRunning = FALSE
  /\ intervalId = FALSE
  /\ runs = [r \in Runs |-> IdleRun]
  /\ scheduleConfig = [autoTest |-> FALSE, retryFailed |-> FALSE, maxRetries |-> 0]
  /\ \E hour \in {9, 12}, minute \in {0, 30} :
       \/ ot = IdleOptimal(DateOf(1, hour, minute), FALSE, <<>>)
       \/ \E a \in SeqUpTo(OptimalTimes, MaxSlots), b \in SeqUpTo(OptimalTimes, 1) :
            ot = IdleOptimal(DateOf(1, hour, minute), TRUE,
                             [pl \in {x \in SlotPlatforms : IF x = "webflow" THEN a # <<>>
                                                                       ELSE b # <<>>} |->
                                IF pl = "webflow" THEN a ELSE b])
  /\ InitBulkPublisher
  /\ bulkConfig = ManagerBulkConfig

NextOptimal ==
  \E platforms \in SeqUpTo(SlotPlatforms, 2) : CalculateOptimalTime(platforms)

SpecOptimal == InitOptimal /\ [][NextOptimal]_vars

\* executeWithRetry under every delay configuration, without a breaker key,
\* the operation failing with a retryable or a terminal error.
InitBackoff ==
  /\ now = 1
  /\ PublisherUnused
  /\ defaultConfig \in [baseDelayMs : 1..MaxBaseDelay, maxDelayMs : 1..MaxDelay,
                         exponentialBackoff : BOOLEAN, jitterMs : 0..MaxJitter]
  /\ cb = NewCircuitBreaker
  /\ hist = NoHistory
  /\ direct = [d \in DirectCallers |-> "idle"]
  /\ rh = IdleCall
  /\ threshold = 1
  /\ resetTimeMs = 1
  /\ InitScheduler
  /\ scheduleConfig = [autoTest |-> FALSE, retryFailed |-> FALSE, maxRetries |-> 0]
  /\ InitBulkPublisher
  /\ bulkConfig = ManagerBulkConfig

NextBackoff ==
  \/ \E m \in 0..MaxRetries : ExecuteWithRetry(FALSE, m, {})
  \/ Attempt
  \/ OperationSucceeds
  \/ \E e \in {Err(FALSE, FALSE, <<"network", "error">>, 0),
                Err(FALSE, FALSE, <<"fail">>, 0)} : OperationFails(e)
  \/ Wake

SpecBackoff == InitBackoff /\ [][NextBackoff]_vars

\* executeWithRetry without a breaker key, the operation failing with errors
\* of every ErrorType, with and without a custom retryableErrors list.
NextTaxonomy ==
  \/ \E m \in 0..MaxRetries, r \in {{}, {<<"Invalid">>}} :
       ExecuteWithRetry(FALSE, m, r)
  \/ Attempt
  \/ OperationSucceeds
  \/ \E e \in PlainErrors : OperationFails(e)
  \/ Wake

SpecTaxonomy == InitRetry /\ [][NextTaxonomy]_vars

\* The scheduler: queue operations, the timer, overlapping publish runs.
NextSched ==
  \/ \E p \in {"medium", "urgent"}, t \in {now, now + RetryDelay}, c \in BOOLEAN :
       AddToQueue(p, t, c)
  \/ \E id \in 1..MaxItems : TestContent(id)
  \/ PublishAllReady
  \/ Start
  \/ Stop
  \/ TimerFires
  \/ \E r \in Runs, o \in PublishOutcomes : PublishSettles(r, o)
  \/ AfterPublishAllReady
  \/ SchedTick

SpecSched == InitSched /\ [][NextSched]_vars

\* The scheduler left to itself: it is started and not stopped, items are
\* submitted and publishAllReady is called, nobody calls testContent. The
\* timer keeps firing, every publishToMultiple call settles, every
\* continuation runs and time passes.
InitSchedAlone ==
  /\ InitSched
  /\ scheduleConfig.autoTest
  /\ scheduleConfig.retryFailed

NextSchedAlone ==
  \/ \E p \in {"medium", "urgent"}, t \in {now, now + RetryDelay}, c \in BOOLEAN :
       AddToQueue(p, t, c)
  \/ PublishAllReady
  \/ Start
  \/ TimerFires
  \/ \E r \in Runs, o \in PublishOutcomes : PublishSettles(r, o)
  \/ AfterPublishAllReady
  \/ SchedTick

SpecSchedAlone ==
  /\ InitSchedAlone
  /\ [][NextSchedAlone]_vars
  /\ WF_vars(Start)
  /\ WF_vars(TimerFires)
  /\ \A r \in Runs : WF_vars(\E o \in PublishOutcomes : PublishSettles(r, o))
  /\ WF_vars(AfterPublishAllReady)
  /\ WF_vars(SchedTick)

\* The bulk publisher: items added and tested while publishAll runs.
NextBulk ==
  \/ \E p \in {"medium", "urgent"}, input \in ItemInputs : AddItem(p, input)
  \/ TestAllItems
  \/ TestNext
  \/ PublishAll
  \/ PublishAllTestNext
  \/ \E id \in 1..MaxBulkItems :
       /\ id \in DOMAIN items
       /\ \E results \in PublishResultsFor(items[id].platforms) :
            PublishItemSettles(id, FALSE, results)
  \/ \E id \in 1..MaxBulkItems : PublishItemSettles(id, TRUE, <<>>)
  \/ BatchSettled
  \/ DelayEnds
  \/ RetryDelayEnds
  \/ RetryNext
  \/ PublishAllReturns

SpecBulk == InitBulk /\ [][NextBulk]_vars

\* The same, with publishAll also called while a publishAll is in progress.
NextSingleFlight ==
  \/ NextBulk
  \/ PublishAllRefused

SpecSingleFlight == InitBulk /\ [][NextSingleFlight]_vars

\* The delayBetweenPublishes values tried: no delay, and a delay other than
\* the default.
DelaysBetweenPublishes == {0, 1000}

\* The batches of publishAll over longer lists of items: the items are given
\* in one addItems call and tested by publishAll (autoTest), under small
\* concurrencies and both delays, without the retry phase that follows the
\* last batch.
InitWaves ==
  /\ now = 1
  /\ PublisherUnused
  /\ InitRetryHandler
  /\ threshold = 1
  /\ resetTimeMs = 1
  /\ InitScheduler
  /\ scheduleConfig = IdleScheduleConfig
  /\ InitBulkPublisher
  /\ bulkConfig \in [concurrency : 1..MaxWaveConcurrency, autoTest : {TRUE},
                      retryFailed : {FALSE}, maxRetries : {MaxBulkRetries},
                      delayBetweenPublishes : DelaysBetweenPublishes]

NextWaves ==
  \/ \E contentItems \in SeqUpTo(ItemEntries, MaxWaveItems) : AddItems(contentItems)
  \/ PublishAll
  \/ PublishAllTestNext
  \/ \E id \in 1..MaxWaveItems :
       /\ id \in DOMAIN items
       /\ \E results \in PublishResultsFor(items[id].platforms) :
            PublishItemSettles(id, FALSE, results)
  \/ \E id \in 1..MaxWaveItems : PublishItemSettles(id, TRUE, <<>>)
  \/ BatchSettled
  \/ DelayEnds
  \/ PublishAllReturns

SpecWaves == InitWaves /\ [][NextWaves]_vars

\* ContentManager holds a scheduler and a bulk publisher. Apart from
\* publishAllNow (see SpecPublishAllNow) the two queues share no state, and
\* a run of this specification works with one of them: the
\* scheduler (under every scheduleConfig, the bulk publisher configured by
\* default and not used so far) or the bulk publisher (under every
\* BulkPublishConfig, the scheduler not used so far).
BulkUnused ==
  /\ items = <<>> /\ ~isPublishing /\ pub = IdlePublishAll /\ tst = IdleTestAll
  /\ mgr = IdleManager

SchedulerUnused ==
  queue = <<>> /\ ~isRunning /\ runs = [r \in Runs |-> IdleRun]

InitManager == InitSched \/ InitBulk

NextManager ==
  \/ BulkUnused /\ bulkConfig = ManagerBulkConfig /\ NextSched
  \/ SchedulerUnused /\ scheduleConfig = IdleScheduleConfig /\ NextBulk

SpecManager == InitManager /\ [][NextManager]_vars

\* ContentManager.publishAllNow over both queues: a scheduler that tests on
\* submission and whose timer is not started, and the bulk publisher with and
\* without its auto-test and retry phase, by one item or by the default
\* number of items at a time.
InitPublishAllNow ==
  /\ now = 1
  /\ PublisherUnused
  /\ InitRetryHandler
  /\ threshold = 1
  /\ resetTimeMs = 1
  /\ InitScheduler
  /\ scheduleConfig = [IdleScheduleConfig EXCEPT !.autoTest = TRUE]
  /\ InitBulkPublisher
  /\ bulkConfig \in [concurrency : {1, ManagerBulkConfig.concurrency},
                      autoTest : BOOLEAN, retryFailed : BOOLEAN,
                      maxRetries : {MaxBulkRetries},
                      delayBetweenPublishes : {DefaultDelayBetweenPublishes}]

NextPublishAllNow ==
  \/ /\ Len(queue) < MaxNowQueued
     /\ \E c \in BOOLEAN : AddToQueue("medium", now, c)
  \/ /\ Len(items) < MaxNowAdded
     /\ \E input \in ItemInputs : AddItem("medium", input)
  \/ TestAllItems
  \/ TestNext
  \/ \E input \in ItemInputs : PublishAllNow(input.platforms)
  \/ PublishAllTestNext
  \/ \E id \in 1..MaxNowItems :
       /\ id \in DOMAIN items
       /\ \E results \in PublishResultsFor(items[id].platforms) :
            PublishItemSettles(id, FALSE, results)
  \/ \E id \in 1..MaxNowItems : PublishItemSettles(id, TRUE, <<>>)
  \/ BatchSettled
  \/ DelayEnds
  \/ RetryDelayEnds
  \/ RetryNext
  \/ PublishAllReturns
  \/ PublishAllNowReturns

SpecPublishAllNow == InitPublishAllNow /\ [][NextPublishAllNow]_vars

\* AIContentPublisher called directly, one call at a time, under every set of
\* configured adapters; everything else idle.
InitPublisherOnly ==
  /\ now = 1
  /\ InitPublisher
  /\ ct = IdleTester(PlainContent)
  /\ InitRetryHandler
  /\ threshold = 1
  /\ resetTimeMs = 1
  /\ InitScheduler
  /\ scheduleConfig = IdleScheduleConfig
  /\ InitBulkPublisher
  /\ bulkConfig = ManagerBulkConfig

NextPublisher ==
  \/ \E v \in BOOLEAN, p \in Platforms : Publish(v, p)
  \/ \E v \in BOOLEAN, ps \in SeqUpTo(Platforms, MaxPlatforms) :
       PublishToMultiple(v, ps)
  \/ \E vs \in SeqUpTo(BOOLEAN, MaxBatchItems), p \in Platforms,
        c \in 0..MaxBatchConcurrency, st \in BOOLEAN : BatchPublish(vs, p, c, st)
  \/ \E n \in 1..MaxBatchItems, success \in BOOLEAN : AdapterSettles(n, FALSE, success)
  \/ \E n \in 1..MaxBatchItems : AdapterSettles(n, TRUE, FALSE)
  \/ PublishReturns
  \/ PublishToMultipleReturns
  \/ BatchGroupSettled

SpecPublisher == InitPublisherOnly /\ [][NextPublisher]_vars

\* ContentTester called directly on every content tried; everything else idle.
InitTester ==
  /\ now = 1
  /\ ap = IdlePublisher(Platforms)
  /\ ct \in {IdleTester(c) : c \in Contents}
  /\ InitRetryHandler
  /\ threshold = 1
  /\ resetTimeMs = 1
  /\ InitScheduler
  /\ scheduleConfig = IdleScheduleConfig
  /\ InitBulkPublisher
  /\ bulkConfig = ManagerBulkConfig

NextTester ==
  \/ \E platform \in PlatformType : TestContentForPlatform(platform)
  \/ \E availablePlatforms \in SeqUpTo(AvailablePlatforms, MaxAvailable) :
       GetBestPlatformsForContent(availablePlatforms)

SpecTester == InitTester /\ [][NextTester]_vars

\* ===================================================== circuit breaker claims
\* A step in which a call through the breaker completes with a failure.
FailureCompletes == hist'.consec = hist.consec + 1

\* C2: starting from closed, the breaker is open right after `threshold`
\* consecutive failed calls and still closed after fewer; failureCount is the
\* number of failures since the last success (a success resets it to 0).
C2_OpensAtThreshold ==
  /\ [](/\ cb.failureCount = hist.consec
        /\ cb.state = CLOSED => hist.consec < threshold)
  /\ [][cb.state = CLOSED /\ FailureCompletes
         => cb'.state = (IF hist'.consec >= threshold THEN OPEN ELSE CLOSED)]_vars

C2_Witness ==
  threshold >= 2 /\ cb.state = OPEN /\ hist.consec = threshold /\ cb.failureCount = threshold

\* C4 (as claimed): every failed call while the breaker is half_open moves it
\* back to open.
C4_Claimed ==
  [][cb.state = HALF_OPEN /\ FailureCompletes => cb'.state = OPEN]_vars

\* C5 (as claimed): a half_open breaker closes exactly when 3 successes in a
\* row, with no failure between them, have completed in the half-open period.
C5_Claimed ==
  /\ [](cb.state = HALF_OPEN => hist.streak < HalfOpenSuccesses)
  /\ [][cb.state = HALF_OPEN /\ cb'.state = CLOSED /\ hist'.streak # 0
         => hist'.streak >= HalfOpenSuccesses]_vars

\* A step in which some direct call is admitted and its operation invoked.
DirectInvoked == \E d \in DirectCallers : direct[d] = "idle" /\ direct'[d] = "inop"

\* A step in which an execute call made at or after the reset time moves the
\* open breaker to half_open with the success counter at 0.
LeavesOpenByExecute ==
  /\ now - cb.lastFailureTime >= resetTimeMs
  /\ cb'.state = HALF_OPEN /\ cb'.successCount = 0
  /\ DirectInvoked

\* C6 (as claimed): an open breaker leaves open only by the first execute made
\* at or after resetTimeMs since lastFailureTime.
C6_Claimed ==
  [][cb.state = OPEN /\ cb'.state # OPEN => LeavesOpenByExecute]_vars

\* C6 (amended): an open breaker leaves open only by an explicit reset() or by
\* the first execute made at or after resetTimeMs since lastFailureTime, which
\* moves it to half_open with successCount 0 and invokes the operation; the
\* clock alone changes nothing.
C6_LeavesOpenByCallOnly ==
  /\ [][cb.state = OPEN /\ cb'.state # OPEN
         => \/ LeavesOpenByExecute
            \/ cb' = NewCircuitBreaker /\ direct' = direct]_vars
  /\ [][cb.state = OPEN /\ DirectInvoked
         => /\ now - cb.lastFailureTime >= resetTimeMs
            /\ cb'.state = HALF_OPEN /\ cb'.successCount = 0]_vars
  /\ [][now' # now => cb' = cb]_vars

C6_Witness ==
  /\ cb.state = HALF_OPEN /\ cb.successCount = 0
  /\ now - cb.lastFailureTime >= resetTimeMs
  /\ \E d \in DirectCallers : direct[d] = "inop"

\* ===================================================== retry handler claims
\* The attempt about to be made is one the breaker rejects.
AttemptWhileOpen ==
  /\ rh.pc = "attempt" /\ rh.useKey
  /\ cb.state = OPEN /\ now - cb.lastFailureTime < resetTimeMs

\* C3 (as claimed): an attempt made while the breaker is open and the reset
\* time has not passed fails fast: operation not invoked, breaker-open error,
\* breaker unchanged, and the call ends without retry or backoff sleep.
C3_Claimed ==
  [][AttemptWhileOpen /\ rh' # rh
       => /\ rh'.invoked = rh.invoked
          /\ rh'.lastError = <<BreakerOpenError>>
          /\ cb' = cb
          /\ rh'.pc = "done" /\ ~rh'.success]_vars

\* What C7 says of a finished call.
C7_Outcome ==
  IF rh.success
    THEN rh.attempts = rh.invoked
    ELSE ~rh.nonRetryable
           => rh.attempts = rh.maxRetries + 1 /\ rh.invoked = rh.maxRetries + 1

\* C7 (as claimed): with or without a breaker key, k retryable failures and
\* then a success give success with attempts = k+1 (= invocations); retryable
\* failures only give failure with attempts = invocations = maxRetries+1.
C7_Claimed == rh.pc = "done" => C7_Outcome

\* C7 (amended): the same, for calls in which the breaker rejected no attempt
\* (always so without a circuitBreakerKey).
C7_AttemptsWhenNotRejected == rh.pc = "done" /\ ~rh.rejected => C7_Outcome

C7_Witness ==
  /\ rh.pc = "done" /\ ~rh.rejected /\ ~rh.success /\ ~rh.nonRetryable
  /\ rh.useKey /\ rh.maxRetries >= 2 /\ rh.invoked = rh.maxRetries + 1

\* The error the last attempt ended with is classified not retryable.
LastErrorNotRetryable ==
  rh.lastError # <<>> /\ ~isRetryableError(rh.lastError[1], rh.retryableErrors)

\* C8: at most maxRetries+1 invocations and attempts; attempt n+1 only after
\* attempt n failed with a retryable error; an error that is not retryable
\* ends the call, which returns that error.
C8_RetriesBounded ==
  /\ [](/\ rh.invoked <= rh.maxRetries + 1
        /\ rh.pc # "idle" => rh.attempts <= rh.maxRetries + 1
        /\ LastErrorNotRetryable => rh.pc = "done" /\ ~rh.success)
  /\ [][rh.attempts >= 1 /\ rh'.attempts = rh.attempts + 1
         => /\ rh.lastError # <<>>
            /\ isRetryableError(rh.lastError[1], rh.retryableErrors)
            /\ rh.pc = "sleep"]_vars

C8_Witness ==
  /\ rh.pc = "done" /\ LastErrorNotRetryable /\ rh.nonRetryable
  /\ rh.attempts = 2 /\ rh.maxRetries >= 2

\* C9 (as claimed): an error that is no RetryableError and carries HTTP status
\* 4xx other than 408 and 429 is never retried, whatever its message.
C9_Claimed ==
  \A e \in OpErrors :
    (rh.lastError = <<e>> /\ ~e.re /\ e.status \in (400..499) \ {408, 429})
      => rh.pc = "done"

\* ========================================================= scheduler claims
\* In this step run r hands item id to publisher.publishToMultiple.
HandsToPublisher(r, id) ==
  /\ runs'[r].pc = "publishing"
  /\ runs[r].pc # "publishing" \/ runs'[r].idx # runs[r].idx
  /\ runs'[r].readyContent[runs'[r].idx].id = id

\* C1 (as claimed): whatever the interleaving of publishAllReady invocations,
\* an item is handed to publishToMultiple only by the one invocation that takes
\* it from ready to publishing.
C1_Claimed ==
  [][\A r \in Runs, id \in 1..MaxItems :
       HandsToPublisher(r, id) => queue[id].status = "ready"]_vars

\* C10 (as claimed): with retryFailed enabled, retryCount counts the re-queues
\* of a failing item and the item is re-queued at most maxRetries times.
C10_Claimed ==
  scheduleConfig.retryFailed =>
    \A id \in DOMAIN queue :
      /\ queue[id].requeued <= effectiveMaxRetries
      /\ queue[id].retryCount >= queue[id].requeued

\* The ids getReadyContent returns now, in the order it returns them.
ReadyIds ==
  LET readyContent == getReadyContent(queue, now) IN
  [k \in DOMAIN readyContent |-> readyContent[k].id]

\* getReadyContent returns exactly the ready items that are due, each once,
\* and no item before one of higher priority.
ReadyExactByPriority ==
  /\ Range(ReadyIds) = {id \in DOMAIN queue : /\ queue[id].status = "ready"
                                              /\ queue[id].scheduledFor <= now}
  /\ \A i, j \in DOMAIN ReadyIds :
       i < j => /\ ReadyIds[i] # ReadyIds[j]
                /\ priorityOrder(queue[ReadyIds[i]].priority)
                     >= priorityOrder(queue[ReadyIds[j]].priority)

\* C12 (as claimed): getReadyContent returns exactly the ready, due items, by
\* descending priority, items of equal priority in submission order.
C12_Claimed ==
  /\ ReadyExactByPriority
  /\ \A i, j \in DOMAIN ReadyIds :
       i < j /\ queue[ReadyIds[i]].priority = queue[ReadyIds[j]].priority
         => ReadyIds[i] < ReadyIds[j]

\* C12 (amended): getReadyContent returns exactly the ready, due items, by
\* descending priority; items of equal priority by ascending scheduledFor, and
\* items of equal priority and scheduledFor in submission order.
C12_ReadyOrder ==
  /\ ReadyExactByPriority
  /\ \A i, j \in DOMAIN ReadyIds :
       i < j /\ queue[ReadyIds[i]].priority = queue[ReadyIds[j]].priority
         => \/ queue[ReadyIds[i]].scheduledFor < queue[ReadyIds[j]].scheduledFor
            \/ /\ queue[ReadyIds[i]].scheduledFor = queue[ReadyIds[j]].scheduledFor
               /\ ReadyIds[i] < ReadyIds[j]

C12_Witness ==
  /\ Len(ReadyIds) = 2
  /\ queue[1].priority = queue[2].priority
  /\ ReadyIds = <<2, 1>>

\* C13 (as claimed): a publish call is issued for a scheduler item only at a
\* time at or after the item's current scheduledFor.
C13_Claimed ==
  [][\A r \in Runs, id \in 1..MaxItems :
       HandsToPublisher(r, id) => queue[id].scheduledFor <= now]_vars

\* ===================================================== bulk publisher claims
\* In this step the bulk publisher hands item id to publishToMultiple.
BulkHandsToPublisher(id) == id \in pub'.inflight /\ id \notin pub.inflight

\* C11 (as claimed): for every configured maxRetries >= 0 no item's retryCount
\* exceeds maxRetries, and a failed item whose retryCount has reached
\* maxRetries is not published again.
C11_Claimed ==
  /\ [](\A id \in DOMAIN items : items[id].retryCount <= bulkConfig.maxRetries)
  /\ [][\A id \in DOMAIN items :
          items[id].status = "failed" /\ items[id].retryCount >= bulkConfig.maxRetries
            => items'[id].status = "failed" /\ ~BulkHandsToPublisher(id)]_vars

\* C17: while publishAll runs (batches and retry phase) at most `concurrency`
\* items are publishing, and at most as many publish calls are in flight.
C17_ConcurrencyBounded ==
  /\ Cardinality({id \in DOMAIN items : items[id].status = "publishing"})
       <= bulkConfig.concurrency
  /\ Cardinality(pub.inflight) <= bulkConfig.concurrency

C17_Witness ==
  /\ bulkConfig.concurrency = 2
  /\ pub.pc = "wave"
  /\ Cardinality(pub.inflight) = 2
  /\ \A id \in pub.inflight : items[id].status = "publishing"

\* The edges of the item state machine (testing is part of the test step).
StatusEdges ==
  { <<"pending", "ready">>, <<"ready", "publishing">>,
    <<"publishing", "published">>, <<"publishing", "failed">>,
    <<"failed", "pending">> }

\* C15 (as claimed): the status of a bulk item changes only along the edges
\* of the state machine; in particular it enters publishing only from ready,
\* so a retried item is tested again before it is published.
C15_Claimed ==
  [][\A id \in DOMAIN items :
       items'[id].status # items[id].status
         => <<items[id].status, items'[id].status>> \in StatusEdges]_vars

\* ============================================= claims on both queues
\* The tester reports a platform of the bulk item incompatible.
BulkIncompatible(id) ==
  \E k \in DOMAIN items[id].platforms :
    items[id].platforms[k] \in items[id].incompatible

\* A publish call for scheduler item id is in flight.
SchedulerInFlight(id) ==
  \E r \in Runs : /\ runs[r].pc = "publishing"
                   /\ runs[r].readyContent[runs[r].idx].id = id

\* C14: an item with a platform the tester reports incompatible stays
\* pending in the bulk queue and in the scheduler queue: it is never ready or
\* publishing, and no publish call is issued for it.
C14_IncompatibleStaysPending ==
  /\ \A id \in DOMAIN items :
       BulkIncompatible(id) => items[id].status = "pending" /\ id \notin pub.inflight
  /\ \A id \in DOMAIN queue :
       ~queue[id].compatible => queue[id].status = "pending" /\ ~SchedulerInFlight(id)

C14_Witness ==
  /\ pub.pc = "wave"
  /\ \E id \in Range(pub.pendingItems) :
       BulkIncompatible(id) /\ items[id].status = "pending"

\* C16 (as claimed): published is terminal in both queues: the status of a
\* published item never changes again and no publish call is issued for it.
C16_Claimed ==
  /\ [][\A id \in DOMAIN queue :
          queue[id].status = "published"
            => /\ queue'[id].status = "published"
               /\ \A r \in Runs : ~HandsToPublisher(r, id)]_vars
  /\ [][\A id \in DOMAIN items :
          items[id].status = "published"
            => items'[id].status = "published" /\ ~BulkHandsToPublisher(id)]_vars


\* In this step the publishToMultiple call run r made for item id settles.
SchedulerAttemptCompletes(r, id) ==
  /\ runs[r].pc = "publishing"
  /\ runs[r].readyContent[runs[r].idx].id = id
  /\ runs'[r].pc # "publishing" \/ runs'[r].idx # runs[r].idx
  /\ id \in DOMAIN queue'

\* In this step the publishToMultiple call made for bulk item id settles.
BulkAttemptCompletes(id) == id \in pub.inflight /\ id \notin pub'.inflight

\* Every target of the attempt returned a successful result.
AllTargetsSucceeded(attempt) ==
  /\ ~attempt.thrown
  /\ \A k \in 1..Len(attempt.results) : attempt.results[k].success

\* C18 (as claimed): when a publish attempt of an item completes, the item is
\* published iff every target returned a successful result; otherwise it is
\* failed and its publishResults are the results of that attempt, one per
\* target.
C18_Claimed ==
  /\ [][\A r \in Runs : \A id \in DOMAIN queue :
          SchedulerAttemptCompletes(r, id) =>
            LET it == queue'[id] IN
            /\ it.status = "published" <=> it.attempt = "successful"
            /\ it.attempt # "successful" =>
                 /\ it.status = "failed"
                 /\ it.attempt = "unsuccessful"
                 /\ it.publishResults = it.attempt]_vars
  /\ [][\A id \in DOMAIN items :
          BulkAttemptCompletes(id) =>
            LET it == items'[id] IN
            /\ it.status = "published" <=> AllTargetsSucceeded(it.attempt)
            /\ ~AllTargetsSucceeded(it.attempt) =>
                 /\ it.status = "failed"
                 /\ it.hasResults
                 /\ ~it.attempt.thrown
                 /\ it.publishResults = it.attempt.results
                 /\ Len(it.publishResults) = Len(it.platforms)]_vars

\* C18 (amended): when publishToMultiple returns, the item is published iff
\* every returned result is successful and failed otherwise, and in both cases
\* its publishResults are the returned results, one per target in order; when
\* the call throws, the item is failed and its publishResults stay as they
\* were before the attempt.
C18_PublishedIffAllSucceed ==
  /\ [][\A r \in Runs : \A id \in DOMAIN queue :
          SchedulerAttemptCompletes(r, id) =>
            LET it == queue'[id] IN
            IF it.attempt = "throws"
              THEN /\ it.status = "failed"
                   /\ it.publishResults = queue[id].publishResults
              ELSE /\ it.attempt \in {"successful", "unsuccessful"}
                   /\ it.status = IF it.attempt = "successful"
                                    THEN "published" ELSE "failed"
                   /\ it.publishResults = it.attempt]_vars
  /\ [][\A id \in DOMAIN items :
          BulkAttemptCompletes(id) =>
            LET it == items'[id] IN
            IF it.attempt.thrown
              THEN /\ it.status = "failed"
                   /\ it.hasResults = items[id].hasResults
                   /\ it.publishResults = items[id].publishResults
              ELSE /\ it.attempt.made
                   /\ it.status =
                        IF \A k \in 1..Len(it.attempt.results) :
                             it.attempt.results[k].success
                          THEN "published" ELSE "failed"
                   /\ it.hasResults
                   /\ it.publishResults = it.attempt.results
                   /\ Len(it.publishResults) = Len(it.platforms)
                   /\ \A k \in 1..Len(it.platforms) :
                        it.publishResults[k].platform = it.platforms[k]]_vars

\* A partial success: one target succeeded, the other did not, and the item is
\* failed with both results kept.
C18_Witness ==
  \E id \in DOMAIN items :
    LET it == items[id] IN
    /\ it.status = "failed"
    /\ it.attempt.made /\ ~it.attempt.thrown
    /\ Len(it.platforms) = 2
    /\ it.hasResults /\ it.publishResults = it.attempt.results
    /\ \E k \in 1..2 : it.publishResults[k].success
    /\ \E k \in 1..2 : ~it.publishResults[k].success


\* C19 (as claimed): every item in the bulk queue has a non-empty target list,
\* so an item that is ready has at least one tested target and an item that
\* is published has at least one target it was successfully published to.
C19_Claimed ==
  \A id \in DOMAIN items :
    LET it == items[id] IN
    /\ it.platforms # <<>>
    /\ it.status = "ready" => \E k \in 1..Len(it.platforms) :
                                 it.platforms[k] \notin it.incompatible
    /\ it.status = "published" =>
         /\ it.hasResults
         /\ \E k \in 1..Len(it.publishResults) : it.publishResults[k].success


\* In this step publishAll takes its snapshot of ready items and starts the
\* first batch.
WavesStart == pub.pc \in {"idle", "testing"} /\ pub'.pc = "wave"

\* C20: the batch loop of publishAll works on exactly the items that are ready
\* when the waves start; it hands each of them to publishItem at most once,
\* the items of the batches started so far exactly once; when the batch loop
\* is over every one of them was handed over exactly once, whatever the
\* outcomes of the others; and publishAll does not end by rejecting.
C20_EveryReadyItemAttemptedOnce ==
  /\ [][WavesStart =>
          /\ Range(pub'.sorted) =
               {id \in DOMAIN items : items[id].status = "ready"}
          /\ Len(pub'.sorted) = Cardinality(Range(pub'.sorted))]_vars
  /\ [](pub.pc \in {"wave", "delay"} =>
          \A n \in 1..Len(pub.sorted) :
            pub.attempted[pub.sorted[n]] =
              IF n < pub.i + concurrency THEN 1 ELSE 0)
  /\ [](pub.pc \in {"retryDelay", "retryPublish", "return"} =>
          \A n \in 1..Len(pub.sorted) : pub.attempted[pub.sorted[n]] = 1)
  /\ [](~pub.rejected)

\* Two ready items published one at a time: the first one threw, the second
\* one was attempted all the same, and publishAll is about to return.
C20_Witness ==
  /\ bulkConfig.concurrency = 1
  /\ ~bulkConfig.retryFailed
  /\ pub.pc = "return"
  /\ Len(pub.sorted) = 2
  /\ items[pub.sorted[1]].attempt.thrown
  /\ items[pub.sorted[2]].attempt.made
  /\ pub.attempted[pub.sorted[1]] = 1
  /\ pub.attempted[pub.sorted[2]] = 1


\* ============================================== publishAll result claims

\* In this step the batch loop has processed the settled promises of a batch.
BatchProcessed == pub.pc = "wave" /\ pub'.pc # "wave" /\ pub.inflight = {}

\* C21 (as claimed): the errors list of the result of publishAll has a message
\* for every item counted in failedItems, whether its publishItem threw or
\* returned an unsuccessful result.
C21_Claimed ==
  /\ [][BatchProcessed =>
          \A id \in DOMAIN pub.settled :
            pub.settled[id] # "successful" =>
              \E n \in 1..Len(pub'.result.errors) : pub'.result.errors[n] = id]_vars
  /\ [](pub.result.failedItems <= Cardinality(Range(pub.result.errors)))


\* C22 (as claimed): when the publishAll of a publishAllNow call has resolved,
\* exactly one publishToMultiple call was made for each content that was ready
\* in the scheduler queue or the bulk queue when publishAllNow started.
C22_Claimed ==
  mgr.pc = "update" => \A c \in mgr.ready : mgr.attempts[c] = 1


\* ==================================================== AIContentPublisher claims

\* The adapter calls the call in progress or just returned made for the
\* request element at position n.
CallsFor(n) == {k \in 1..Len(ap.calls) : ap.calls[k].value.item = n}

\* C23: publishToMultiple returns exactly one result per requested platform,
\* in request order, each carrying its platform; when the content is valid,
\* every configured platform of the request got exactly one adapter call and
\* its result is what that adapter returned, a failed result if the adapter
\* threw, whatever the outcome for the other platforms.
C23_OneResultPerPlatform ==
  (ap.op = "publishToMultiple" /\ ap.done) =>
    /\ Len(ap.results) = Len(ap.platforms)
    /\ \A n \in 1..Len(ap.platforms) :
         /\ ap.results[n].platform = ap.platforms[n]
         /\ ap.results[n].item = n
         /\ ap.valid[1] /\ ap.platforms[n] \in ap.configured =>
              /\ Cardinality(CallsFor(n)) = 1
              /\ ap.slots[n].state \in {"fulfilled", "rejected"}
              /\ ap.slots[n].state = "fulfilled" => ap.results[n] = ap.slots[n].value
              /\ ap.slots[n].state = "rejected" => ~ap.results[n].success

\* Two platforms: the adapter of the first threw, the second succeeded.
C23_Witness ==
  /\ ap.op = "publishToMultiple" /\ ap.done
  /\ ap.platforms = <<"webflow", "wordpress">>
  /\ Len(ap.slots) = 2
  /\ ap.slots[1].state = "rejected"
  /\ ~ap.results[1].success
  /\ ap.results[2].success


\* Whether validateContent accepts the content of request element n, and the
\* platform it is to be published to.
ValidAt(n) == IF ap.op = "batchPublish" THEN ap.valid[n] ELSE ap.valid[1]

PlatformAt(n) == IF ap.op = "batchPublish" THEN ap.platforms[1] ELSE ap.platforms[n]

\* Request element n must not reach an adapter.
Refused(n) == ~ValidAt(n) \/ PlatformAt(n) \notin ap.configured

C25_OneResultPerItemInGroups ==
  ap.op = "batchPublish" =>
    /\ (ap.done /\ ~ap.stopOnError) =>
         /\ Len(ap.results) = Len(ap.valid)
         /\ \A n \in 1..Len(ap.results) : ap.results[n].item = n
         /\ \A n \in 1..Len(ap.valid) :
              /\ ap.slots[n].state \in {"fulfilled", "rejected"}
              /\ Cardinality(CallsFor(n)) <= 1
              /\ ap.slots[n].state = "fulfilled" => ap.results[n] = ap.slots[n].value
              /\ ap.slots[n].state = "rejected" => ~ap.results[n].success
    /\ ~ap.done =>
         \A n \in 1..Len(ap.slots) :
           /\ n < ap.i => ap.slots[n].state \in {"fulfilled", "rejected"}
           /\ n >= ap.i + ap.concurrency => ap.slots[n].state = "notStarted"
           /\ ap.slots[n].state = "pending" =>
                n >= ap.i /\ n < ap.i + ap.concurrency

\* Three items two at a time: the second one failed, the third one, in the
\* next group, succeeded.
C25_Witness ==
  /\ ap.op = "batchPublish" /\ ap.done /\ ~ap.stopOnError
  /\ ap.concurrency = 2
  /\ Len(ap.results) = 3
  /\ ap.results[1].success
  /\ ~ap.results[2].success
  /\ ap.results[3].success


\* ========================================================= ContentTester claims

\* C26: when the title is longer than the platform's maxTitleLength,
\* testContentForPlatform returns a score of at most 70, an issue on the
\* title with severity high, and isCompatible = false.
C26_LongTitleIncompatible ==
  (/\ ct.op = "test"
   /\ ct.platform \in DOMAIN platformRequirements
   /\ platformRequirements[ct.platform].maxTitleLength # 0
   /\ ct.content.titleLength > platformRequirements[ct.platform].maxTitleLength)
  => /\ ct.result.score <= 70
     /\ \E n \in 1..Len(ct.result.issues) :
          /\ ct.result.issues[n].field = "title"
          /\ ct.result.issues[n].severity = "high"
     /\ ~ct.result.isCompatible

\* A title one character too long for webflow and nothing else wrong.
C26_Witness ==
  /\ ct.op = "test"
  /\ ct.platform = "webflow"
  /\ ct.content.titleLength = 201
  /\ ct.result.score = 70
  /\ Len(ct.result.issues) = 1
  /\ ~ct.result.isCompatible

\* The content breaks some rule the tester has for the platform; a platform
\* without requirements has no rule to break.
ViolatesRule(content, platform) ==
  /\ platform \in DOMAIN platformRequirements
  /\ LET r == platformRequirements[platform] IN
     \/ r.supportedContentTypes # {} /\ content.type \notin r.supportedContentTypes
     \/ r.maxTitleLength # 0 /\ content.titleLength > r.maxTitleLength
     \/ r.maxContentLength # 0 /\ content.contentLength > r.maxContentLength
     \/ r.maxExcerptLength # 0 /\ content.excerptLength > r.maxExcerptLength
     \/ r.maxTags # 0 /\ content.tags > r.maxTags
     \/ r.maxHashtags # 0 /\ content.hashtags > r.maxHashtags
     \/ r.imageRequirements /\ r.maxCount # 0 /\ content.images > r.maxCount
     \/ platform = "twitter" /\ content.type = "twitter-thread"
          /\ content.threadLength > MaxThreadLength
     \/ platform = "linkedin" /\ content.casual
     \/ platform = "instagram" /\ content.images <= 0

\* C27 (as claimed): for every platform of PlatformType and every content
\* that violates none of the platform's rules, testContentForPlatform returns
\* score = 100 and isCompatible = true.
C27_Claimed ==
  (ct.op = "test" /\ ~ViolatesRule(ct.content, ct.platform))
  => ct.result.score = 100 /\ ct.result.isCompatible

\* The score the tester gives the content for a platform.
ScoreOf(platform) == testContentForPlatform(ct.content, platform).score

\* The lexical order of the platform identifiers.
LexRank(platform) ==
  CASE platform = "medium" -> 1
    [] platform = "reddit" -> 2
    [] platform = "webflow" -> 3
    [] platform = "wordpress" -> 4

\* How many times x occurs in s.
Count(s, x) == Cardinality({n \in 1..Len(s) : s[n] = x})

\* C28 (as claimed): getBestPlatformsForContent returns exactly the compatible
\* platforms among those given, in non-increasing score order, platforms of
\* equal score in lexical order of their identifiers.
C28_Claimed ==
  ct.op = "best" =>
    /\ \A pl \in AvailablePlatforms :
         Count(ct.best, pl) =
           IF testContentForPlatform(ct.content, pl).isCompatible
             THEN Count(ct.available, pl) ELSE 0
    /\ \A i, j \in 1..Len(ct.best) :
         i < j =>
           /\ ScoreOf(ct.best[i]) >= ScoreOf(ct.best[j])
           /\ ScoreOf(ct.best[i]) = ScoreOf(ct.best[j])
                => LexRank(ct.best[i]) <= LexRank(ct.best[j])


\* ====================================================== publishAll wave claims

\* ceil(n / c)
CeilDiv(n, c) == (n + c - 1) \div c

\* The items of the batches, one batch after the other.
RECURSIVE Flatten(_)
Flatten(ss) == IF ss = <<>> THEN <<>> ELSE Head(ss) \o Flatten(Tail(ss))

\* publishAll is past its batch loop.
BatchLoopOver == pub.pc \in {"return", "retryDelay", "retryPublish"}

\* The batches of publishAll over n ready items under concurrency c: every
\* batch but the last has c items, the batches are the sorted items in
\* order, there are ceil(n/c) of them, and one delay was awaited between each
\* two consecutive batches and none after the last.
WavesAsClaimed ==
  LET n == Len(pub.sorted)
      c == bulkConfig.concurrency
      w == Len(pub.waves)
  IN /\ \A k \in 1..(w - 1) : Len(pub.waves[k]) = c
     /\ pub.pc = "wave" => Len(pub.delays) = w - 1
     /\ pub.pc = "delay" => Len(pub.delays) = w /\ w < CeilDiv(n, c)
     /\ BatchLoopOver =>
          /\ w = CeilDiv(n, c)
          /\ Flatten(pub.waves) = pub.sorted
          /\ Len(pub.delays) = w - 1

\* C29 (as claimed): publishAll with n ready items and concurrency c >= 1
\* runs exactly ceil(n/c) waves, every wave but the last of exactly c items,
\* and sleeps delayBetweenPublishes exactly once between each two consecutive
\* waves and not after the last.
C29_Claimed ==
  bulkConfig.concurrency >= 1 =>
    /\ WavesAsClaimed
    /\ \A k \in 1..Len(pub.delays) : pub.delays[k] = bulkConfig.delayBetweenPublishes


\* The items publishAll has set to publishing in its batches, in that order.
Entered == Flatten(pub.waves)

\* A step of the batch loop that starts the next batch of the same call.
NextWaveStarts == pub.waves # <<>> /\ Len(pub'.waves) > Len(pub.waves)

\* C30: within one publishAll call no item of wave k+1 enters publishing
\* before every item of wave k has settled, and no item enters publishing
\* before every ready item of the call with a strictly higher priority has
\* entered publishing.
C30_WavesInPriorityOrder ==
  /\ [][NextWaveStarts =>
          /\ pub.inflight = {}
          /\ Range(pub.waves[Len(pub.waves)]) \subseteq DOMAIN pub.settled]_vars
  /\ [](\A n \in 1..Len(Entered) : \A y \in Range(pub.sorted) :
          priorityOrder(items[y].priority) > priorityOrder(items[Entered[n]].priority)
            => \E m \in 1..(n - 1) : Entered[m] = y)

\* The second batch is in flight, and it holds the item that was added first:
\* the urgent item added after it went into the first batch.
C30_Witness ==
  /\ pub.pc = "wave"
  /\ pub.waves = <<(<<2>>), (<<1>>)>>
  /\ pub.inflight = {1}
  /\ items[1].priority = "medium"
  /\ items[2].priority = "urgent"
  /\ items[2].status \in {"published", "failed"}


\* ============================================================ scheduler retry

\* Item id failed, is below the retry limit and its content is compatible
\* with all its platforms.
RetryableFailed(id) ==
  /\ id \in DOMAIN queue
  /\ queue[id].status = "failed"
  /\ queue[id].retryCount < scheduleConfig.maxRetries
  /\ queue[id].compatible

\* C31 (as claimed): with the scheduler running and retryFailed enabled, a
\* failed item below maxRetries whose content is compatible with all its
\* targets is eventually tested again and returns to ready, without any
\* external call to testContent.
C31_Claimed ==
  \A id \in 1..MaxItems :
    (isRunning /\ scheduleConfig.retryFailed /\ RetryableFailed(id))
      ~> (id \in DOMAIN queue /\ queue[id].status = "ready")


\* ======================================================= publishAllNow outcome

\* The step in which publishAllNow returns after its publishAll resolved.
PublishAllNowReturned == mgr.pc = "update" /\ mgr'.pc = "idle"

\* C32 (as claimed): after publishAllNow returns, every scheduler item that
\* was ready when it started is published, or failed with its publishResults
\* recorded, so that nothing publishes it again.
C32_Claimed ==
  [][PublishAllNowReturned =>
       \A n \in 1..Len(mgr.schedulerReady) :
         LET item == queue'[mgr.schedulerReady[n].id] IN
         \/ item.status = "published" /\ item.publishResults = "successful"
         \/ item.status = "failed" /\ item.publishResults = "unsuccessful"]_vars


\* ============================================================ error taxonomy

\* The terminal and the retryable classes of the error taxonomy.
TerminalTypes == {"authentication", "client", "validation"}

RetryableTypes == {"network", "timeout", "server", "rate_limit"}

\* The last error caught by the call was thrown by the operation and is not
\* a RetryableError instance.
LastPlainError ==
  rh.lastError # <<>> /\ ~rh.lastError[1].re /\ ~rh.rejected

\* C33 (as claimed): for every error that is not an explicit RetryableError,
\* executeWithRetry never retries it when categorizeError classifies it as
\* authentication, client or validation, and retries it while attempts
\* remain when categorizeError classifies it as network, timeout, server or
\* rate_limit.
C33_Claimed ==
  LastPlainError =>
    LET type == categorizeError(rh.lastError[1]) IN
    /\ type \in TerminalTypes => rh.pc = "done"
    /\ (type \in RetryableTypes /\ rh.pc = "done" /\ ~rh.success)
         => rh.attempts > rh.maxRetries


\* =================================================================== backoff

\* The delay claimed for the sleep before attempt n, with jitter j.
ClaimedDelay(n, config, j) ==
  IF config.exponentialBackoff
    THEN Min(Min(config.baseDelayMs * Pow2(n - 2), config.maxDelayMs) + j,
             config.maxDelayMs)
    ELSE Min(config.baseDelayMs + j, config.maxDelayMs)

\* C34: the backoff slept before attempt n (n >= 2) is
\* min(min(baseDelayMs * 2^(n-2), maxDelayMs) + j, maxDelayMs) under
\* exponentialBackoff and min(baseDelayMs + j, maxDelayMs) otherwise, with
\* 0 <= j <= jitterMs; it never exceeds maxDelayMs; one sleep precedes every
\* attempt but the first, and a sleep is always followed by another attempt.
C34_BackoffDelays ==
  rh.pc # "idle" =>
    /\ Len(rh.delays) = rh.attempts - 1
    /\ \A k \in 1..Len(rh.delays) :
         /\ \E j \in 0..defaultConfig.jitterMs :
              rh.delays[k] = ClaimedDelay(k + 1, defaultConfig, j)
         /\ rh.delays[k] <= defaultConfig.maxDelayMs
    /\ rh.pc = "sleep" => rh.attempts <= rh.maxRetries
    /\ rh.pc = "done" => rh.invoked = rh.attempts

\* A call that slept twice under exponential backoff: the base delay, then
\* twice the base delay cut to maxDelayMs.
C34_Witness ==
  /\ rh.pc = "done"
  /\ defaultConfig.exponentialBackoff
  /\ defaultConfig.baseDelayMs = 2
  /\ defaultConfig.maxDelayMs = 3
  /\ rh.attempts = 3
  /\ rh.delays = <<2, 3>>


\* ============================================================== optimal time

\* The entries of the requested platforms.
RequestedSlots ==
  UNION {Range(ot.optimalTimes[pl]) :
           pl \in Range(ot.platforms) \cap DOMAIN ot.optimalTimes}

\* The next occurrence of an entry's (dayOfWeek, hour) strictly after date.
NextOccurrence(date, time) ==
  LET t == createTimeForDay(date, time.dayOfWeek, time.hour) IN
  IF t > date THEN t ELSE t + DaysPerWeek * MinutesPerDay

\* C35 (as claimed): calculateOptimalTime returns a time strictly after now;
\* among the entries of the requested platforms, each at its next occurrence
\* after now, it returns one with the highest engagement, the nearest of them
\* when several have it; without entries for the requested platforms it
\* returns now + 1 hour.
C35_Claimed ==
  ot.pc = "done" =>
    /\ ot.result > ot.date
    /\ IF ~ot.configured \/ RequestedSlots = {}
         THEN ot.result = ot.date + MinutesPerHour
         ELSE LET top == {x \in RequestedSlots :
                             \A y \in RequestedSlots : y.engagement <= x.engagement}
              IN /\ \E x \in top : ot.result = NextOccurrence(ot.date, x)
                 /\ \A x \in top : ot.result <= NextOccurrence(ot.date, x)


\* ========================================================= publishAll counters

\* The items of the batches of the publishAll in progress with this status.
BatchItemsWith(status) == {id \in Range(pub.sorted) : items[id].status = status}

\* C36 (as claimed): when publishAll returns, successfulItems is the number
\* of batch items whose status is published, failedItems the number whose
\* status is failed, and results holds the latest outcome of every item whose
\* last publish returned results, also for items retried inside the call.
C36_Claimed ==
  (pub.pc = "return" /\ ~pub.rejected) =>
    /\ pub.result.successfulItems = Cardinality(BatchItemsWith("published"))
    /\ pub.result.failedItems = Cardinality(BatchItemsWith("failed"))
    /\ \A id \in Range(pub.sorted) :
         (items[id].attempt.made /\ ~items[id].attempt.thrown) =>
           /\ id \in DOMAIN pub.result.results
           /\ pub.result.results[id] =
                IF everySuccess(items[id].attempt.results) THEN "successful"
                                                            ELSE "unsuccessful"


\* ======================================================== publishAll at a time

\* A publishAll call was refused in this step.
CallRefused == ~pub.refused /\ pub'.refused

\* C37: at most one publishAll runs at a time. A call made while another is
\* in progress throws without changing any item or the in-progress flag, and
\* leaves the publishAll in progress where it is; the flag is set exactly
\* while a publishAll is in progress, so it is false again after every
\* publishAll that started has finished.
C37_SingleFlight ==
  /\ [](isPublishing <=> pub.pc # "idle")
  /\ [][CallRefused => /\ isPublishing /\ isPublishing'
                       /\ items' = items
                       /\ pub' = [pub EXCEPT !.refused = TRUE]]_vars

\* A publishAll that refused another call while it was in progress has
\* published an item and is about to return.
C37_Witness ==
  /\ isPublishing
  /\ pub.refused
  /\ pub.pc = "return"
  /\ \E id \in DOMAIN items : items[id].status = "published"


\* ==================================================== breaker under overlap

\* C38: with threshold >= 1, under any interleaving of overlapping execute
\* calls and reset, a closed breaker has failureCount below the threshold
\* and a half-open breaker has counted fewer than 3 successes.
C38_CountersInRange ==
  threshold >= 1 =>
    /\ cb.state = CLOSED => cb.failureCount < threshold
    /\ cb.state = HALF_OPEN => cb.successCount < HalfOpenSuccesses

\* Two calls overlap on a half-open breaker that has counted two successes
\* and still holds the failures that opened it.
C38_Witness ==
  /\ \A d \in DirectCallers : direct[d] = "inop"
  /\ cb.state = HALF_OPEN
  /\ cb.successCount = HalfOpenSuccesses - 1
  /\ threshold = MaxThreshold

\* The call of d completes successfully in this step.
SucceedsNow(d) ==
  direct[d] = "inop" /\ direct'[d] = "idle" /\ cb'.failureCount = 0

\* C39: a call that was started before the breaker opened and completes
\* successfully while the breaker is half-open does not advance the
\* half-open success counter.
C39_Claimed ==
  [][\A d \in DirectCallers :
       (SucceedsNow(d) /\ d \in hist.before /\ cb.state = HALF_OPEN)
         => cb'.successCount = cb.successCount /\ cb'.state = HALF_OPEN]_vars


\* ============================================================ scheduler stop

\* The processing pass of the timer goes on to its next ready item in this
\* step: it sets the item to publishing and calls publishToMultiple for it.
PassPublishesNext ==
  /\ runs'["scheduled"].pc = "publishing"
  /\ runs'["scheduled"].idx > runs["scheduled"].idx

\* C40: from stop() until the next start() the scheduler moves no further
\* item to publishing and issues no further publish call, even if a pass
\* begun before stop() is in the middle of its list of ready items; and the
\* scheduler has a timer only while it is running, one at most.
C40_Claimed ==
  /\ [](intervalId => isRunning)
  /\ [][(~isRunning /\ ~isRunning') => ~PassPublishesNext]_vars

====
